---- MODULE Spec2Model ----
(***************************************************************************)
(* Model of the `openclaw monitor` engine (monitor-cli.ts): the            *)
(* LogGrowthWatcher polling scan, the elapsed-time formatter, the option   *)
(* parser, the terminal and color-mode resolver, the bar renderer and the  *)
(* render loop of runMonitorCommand.                                       *)
(*                                                                         *)
(* Conventions.  Text is a sequence of Unicode code points (naturals), so  *)
(* that formatting and display width are computed, not assumed.  Numbers   *)
(* that the program holds as floating-point seconds are carried in         *)
(* thousandths of a second (an integer), which is exact for every input    *)
(* used here.  Paths are naturals whose numeric order stands for the       *)
(* localeCompare order of the path strings.                                *)
(***************************************************************************)
EXTENDS Integers, Sequences, FiniteSets, TLC

VARIABLES
    \* ---- LogGrowthWatcher and the file system it polls
    disk,        \* path -> what glob/stat answered at the latest scan
    states,      \* LogGrowthWatcher.states : tracked path -> FileState
    sawGrowth,   \* value returned by the latest scanForGrowth()
    flagged,     \* paths that set sawGrowth in the latest scan
    scans,       \* number of scanForGrowth() calls made so far
    change,      \* path -> kind of change between the two latest scans
    \* ---- formatElapsed
    secIn,       \* the argument, in thousandths of a second
    elapsed,     \* the returned text
    \* ---- parseMonitorOptions / renderMonitorLine
    raw,         \* MonitorCliOptions handed to the parser
    pc,          \* "start" | "parsed" | "failed" | "resolved" | "rendered"
    options,     \* ParsedMonitorOptions (NoOptions until parsed)
    error,       \* message of the Error thrown by the parser, "" if none
    runtime,     \* RuntimeTerminalConfig (NoRuntime until resolved)
    host,        \* what the process finds around it: process.env,
                 \* process.platform, the answer of `defaults read`
    idleMs,      \* renderMonitorLine argument
    totalColumns,\* renderMonitorLine argument
    line,        \* the rendered line
    \* ---- displayWidth
    units,       \* the argument, a string as its UTF-16 code units
    measured,    \* the returned width (NoWidth until the call)
    \* ---- runMonitorCommand
    lpc,         \* "start" | "loop" | "wait" | "finally" | "done" | "rejected"
    tty,         \* process.stdout.isTTY, .columns and process.stdin.isTTY
    handlers,    \* listeners registered by createSignalController
    aborted,     \* controller.signal.aborted
    needsFullClear,   \* createSignalController's flag
    shouldHideCursor, \* the constant of that name
    warned,      \* the image fallback warning went to stderr
    out,         \* what was written to stdout, chunk by chunk
    clock,       \* Date.now(), in milliseconds since the call
    lastActivityMs,
    previousWidth,
    ticks,       \* status lines attempted so far
    failure,     \* where the error on its way to the caller was thrown
    waitError,   \* what the inter-tick wait rejected with (NoError if not)
    result,      \* "running" | "returned" | "threw"
    \* ---- buildBarArea
    barIn,       \* the params object handed to buildBarArea
    bpc,         \* "idle" | "start" | "built"
    barArea      \* the returned bar area

watcherVars == <<disk, states, sawGrowth, flagged, scans, change>>
elapsedVars == <<secIn, elapsed>>
cliVars     == <<raw, pc, options, error, runtime, host, idleMs, totalColumns, line>>
widthVars   == <<units, measured>>
loopVars    == <<lpc, tty, handlers, aborted, needsFullClear, shouldHideCursor, warned,
                 out, clock, lastActivityMs, previousWidth, ticks, failure, waitError,
                 result>>
barVars     == <<barIn, bpc, barArea>>
vars        == <<watcherVars, elapsedVars, cliVars, widthVars, loopVars, barVars>>

Max(a, b) == IF a >= b THEN a ELSE b
Min(a, b) == IF a <= b THEN a ELSE b

(***************************************************************************)
(* Bounds of the model.                                                    *)
(***************************************************************************)
MaxSize  == 2      \* file sizes range over 0..MaxSize
MaxScans == 3      \* scanForGrowth() is called at most this often

Paths == {1, 2}
\* (dev, ino) pairs: two inodes on one device and one inode on another, so
\* that a device-only and an inode-only difference both occur.
FileIds == {<<1, 1>>, <<1, 2>>, <<2, 1>>}
Sizes == 0 .. MaxSize

(***************************************************************************)
(* The file system as seen by fs.globSync and fs.statSync.                 *)
(*   kind "absent" : the glob does not match the path                      *)
(*   kind "nostat" : the glob matches, statSync throws                     *)
(*   kind "ok"     : the glob matches, statSync returns dev, ino, size     *)
(***************************************************************************)
Gone(k) == [kind |-> k, dev |-> 0, ino |-> 0, size |-> 0]
Present(id, n) == [kind |-> "ok", dev |-> id[1], ino |-> id[2], size |-> n]
DiskEntries == {Gone("absent"), Gone("nostat")}
                   \cup {Present(id, n) : id \in FileIds, n \in Sizes}

NoChange == [p \in Paths |-> "none"]

\* Variants of the scan's steps, each with one slip, used to show that the
\* properties below depend on the step.
SeedStateFromZero(stats) == [dev |-> stats.dev, ino |-> stats.ino, size |-> 0]
AfterRotationKeepSize(state, stats) ==
    IF state.dev # stats.dev \/ state.ino # stats.ino
    THEN [dev |-> stats.dev, ino |-> stats.ino, size |-> state.size]
    ELSE state
AfterTruncationNoReset(state, stats) == state
AfterGrowthNoUpdate(state, stats) == state

\* FileState as built at first sighting: the baseline is the current size.
SeedState(stats) == [dev |-> stats.dev, ino |-> stats.ino, size |-> stats.size]

\* Rotation: same path, other underlying file.
AfterRotation(state, stats) ==
    IF state.dev # stats.dev \/ state.ino # stats.ino
    THEN [dev |-> stats.dev, ino |-> stats.ino, size |-> 0]
    ELSE state

\* Truncation: the file is shorter than what was recorded.
AfterTruncation(state, stats) ==
    IF stats.size < state.size THEN [state EXCEPT !.size = 0] ELSE state

\* The growth test of the scan.
Grew(state, stats) == stats.size > state.size

AfterGrowth(state, stats) ==
    IF Grew(state, stats) THEN [state EXCEPT !.size = stats.size] ELSE state

MapDelete(m, p) == [q \in DOMAIN m \ {p} |-> m[q]]
MapSet(m, p, v) == [q \in DOMAIN m \cup {p} |-> IF q = p THEN v ELSE m[q]]

\* fs.globSync(this.pattern)
Matched(d) == {p \in Paths : d[p].kind # "absent"}

\* [...matched].sort((a, b) => a.localeCompare(b))
RECURSIVE SortedPaths(_)
SortedPaths(S) ==
    IF S = {} THEN <<>>
    ELSE LET least == CHOOSE p \in S : \A q \in S : p <= q
         IN  <<least>> \o SortedPaths(S \ {least})

\* The first loop of the scan left out: no tracked path is dropped.
DropUnmatchedNothing(m, matched) == m

\* Drop every tracked path the glob no longer matches.
DropUnmatched(m, matched) == [q \in DOMAIN m \cap matched |-> m[q]]

\* The body of the second loop, for one path.
\* m is this.states, saw the paths that have set sawGrowth so far.
ScanPath(m, saw, d, path) ==
    LET stats == d[path] IN
    IF stats.kind = "nostat"
    THEN [states |-> MapDelete(m, path), flagged |-> saw]
    ELSE IF path \notin DOMAIN m
    THEN [states |-> MapSet(m, path, SeedState(stats)), flagged |-> saw]
    ELSE LET s1 == AfterRotation(m[path], stats)
             s2 == AfterTruncation(s1, stats)
             s3 == AfterGrowth(s2, stats)
         IN  [states |-> MapSet(m, path, s3),
              flagged |-> IF Grew(s2, stats) THEN saw \cup {path} ELSE saw]

\* The second loop giving up at the first path that cannot be stat'd.
RECURSIVE ScanLoopStopsAtStatFailure(_, _, _)
ScanLoopStopsAtStatFailure(acc, d, order) ==
    IF order = <<>> THEN acc
    ELSE IF d[Head(order)].kind = "nostat"
    THEN [states |-> MapDelete(acc.states, Head(order)), flagged |-> acc.flagged]
    ELSE LET next == ScanPath(acc.states, acc.flagged, d, Head(order))
         IN  ScanLoopStopsAtStatFailure(next, d, Tail(order))

RECURSIVE ScanLoop(_, _, _)
ScanLoop(acc, d, order) ==
    IF order = <<>> THEN acc
    ELSE LET next == ScanPath(acc.states, acc.flagged, d, Head(order))
         IN  ScanLoop(next, d, Tail(order))

\* scanForGrowth(): the new map and the paths that flagged growth.
scanForGrowth(m, d) ==
    ScanLoop([states |-> DropUnmatched(m, Matched(d)), flagged |-> {}],
             d, SortedPaths(Matched(d)))

(***************************************************************************)
(* What can have happened to one path between two scans, given what the    *)
(* earlier scan found there (entry e): the kind of change and the entry    *)
(* the later scan finds.                                                   *)
(*   none    nothing                                                       *)
(*   append  fs.appendFileSync: more bytes in the same file                *)
(*   trunc   fs.truncateSync(path, 0), nothing written afterwards          *)
(*   truncw  fs.truncateSync(path, 0), then bytes written                  *)
(*   rot     fs.renameSync away and a new, still empty, file at the path   *)
(*   rotw    the same, then bytes written to the new file                  *)
(*   gone    the path stops matching, or matches and cannot be stat'd      *)
(*   new     a file appears at a path that had none                        *)
(***************************************************************************)
Outcome(k, e) == [kind |-> k, to |-> e]

Changes(e) ==
    IF e.kind = "ok"
    THEN {Outcome("none", e)}
         \cup {Outcome("append", [e EXCEPT !.size = @ + n]) :
                   n \in 1 .. (MaxSize - e.size)}
         \cup {Outcome("trunc", [e EXCEPT !.size = 0]) : x \in 1 .. Min(1, e.size)}
         \cup {Outcome("truncw", [e EXCEPT !.size = m]) :
                   m \in 1 .. (IF e.size > 0 THEN MaxSize ELSE 0)}
         \cup {Outcome("rot", Present(id, 0)) :
                   id \in FileIds \ {<<e.dev, e.ino>>}}
         \cup {Outcome("rotw", Present(id, m)) :
                   id \in FileIds \ {<<e.dev, e.ino>>}, m \in 1 .. MaxSize}
         \cup {Outcome("gone", Gone(k)) : k \in {"absent", "nostat"}}
    ELSE {Outcome("none", e)}
         \cup {Outcome("gone", Gone(k)) : k \in {"absent", "nostat"} \ {e.kind}}
         \cup {Outcome("new", Present(id, n)) : id \in FileIds, n \in Sizes}

(***************************************************************************)
(* Watcher action: the files change in some way, then scanForGrowth()      *)
(* runs.  The scan only ever sees the files as they are when it runs.      *)
(***************************************************************************)
WatcherScan ==
    /\ scans < MaxScans
    /\ \E c1 \in Changes(disk[1]), c2 \in Changes(disk[2]) :
        \E d \in {[p \in Paths |-> IF p = 1 THEN c1.to ELSE c2.to]} :
        \E r \in {scanForGrowth(states, d)} :
            /\ disk' = d
            /\ change' = [p \in Paths |-> IF p = 1 THEN c1.kind ELSE c2.kind]
            /\ states' = r.states
            /\ flagged' = r.flagged
            /\ sawGrowth' = (r.flagged # {})
    /\ scans' = scans + 1
    /\ UNCHANGED <<barVars, elapsedVars, cliVars, widthVars, loopVars>>

(***************************************************************************)
(* Text.  A string is a sequence of code points.                           *)
(***************************************************************************)
Str0 == 48        \* "0"
Colon == 58       \* ":"
Space == 32       \* " "
LBracket == 91    \* "["
RBracket == 93    \* "]"

\* String(n) for a natural n: its decimal digits.
RECURSIVE String(_)
String(n) ==
    IF n < 10 THEN <<Str0 + n>> ELSE String(n \div 10) \o <<Str0 + (n % 10)>>

\* text.padStart(targetLength, fill) for a one-character fill.
RECURSIVE padStart(_, _, _)
padStart(text, targetLength, fill) ==
    IF Len(text) >= targetLength THEN text
    ELSE padStart(<<fill>> \o text, targetLength, fill)

\* symbol.repeat(count)
RECURSIVE repeat(_, _)
repeat(symbol, count) ==
    IF count <= 0 THEN <<>> ELSE symbol \o repeat(symbol, count - 1)

(***************************************************************************)
(* formatElapsed(seconds).  The argument is given in thousandths of a      *)
(* second, so Math.floor(seconds) is the floor division by 1000.           *)
(***************************************************************************)
formatElapsedMinsNotReduced(seconds) ==
    LET total == Max(0, seconds \div 1000)
        hours == total \div 3600
        mins  == total \div 60
        secs  == total % 60
    IN  IF hours > 0
        THEN padStart(String(hours), 2, Str0) \o <<Colon>>
                 \o padStart(String(mins), 2, Str0) \o <<Colon>>
                 \o padStart(String(secs), 2, Str0)
        ELSE padStart(String(mins), 2, Str0) \o <<Colon>>
                 \o padStart(String(secs), 2, Str0)

formatElapsed(seconds) ==
    LET total == Max(0, seconds \div 1000)
        hours == total \div 3600
        mins  == (total % 3600) \div 60
        secs  == total % 60
    IN  IF hours > 0
        THEN padStart(String(hours), 2, Str0) \o <<Colon>>
                 \o padStart(String(mins), 2, Str0) \o <<Colon>>
                 \o padStart(String(secs), 2, Str0)
        ELSE padStart(String(mins), 2, Str0) \o <<Colon>>
                 \o padStart(String(secs), 2, Str0)

(***************************************************************************)
(* Strings the option parser and the resolver compare with.                *)
(***************************************************************************)
S_auto == <<97, 117, 116, 111>>   \* "auto"
S_left == <<108, 101, 102, 116>>   \* "left"
S_right == <<114, 105, 103, 104, 116>>   \* "right"
S_text == <<116, 101, 120, 116>>   \* "text"
S_image == <<105, 109, 97, 103, 101>>   \* "image"
S_dark == <<100, 97, 114, 107>>   \* "dark"
S_light == <<108, 105, 103, 104, 116>>   \* "light"
S_apple_terminal == <<97, 112, 112, 108, 101, 45, 116, 101, 114, 109, 105, 110, 97, 108>>   \* "apple-terminal"
S_iterm2 == <<105, 116, 101, 114, 109, 50>>   \* "iterm2"
S_warp == <<119, 97, 114, 112>>   \* "warp"
S_generic == <<103, 101, 110, 101, 114, 105, 99>>   \* "generic"

\* A value that is not there (undefined): no string has a negative code.
Undefined == <<-1>>
\* The string "auto" where the program holds number | "auto".
Auto == 0

\* value ?? fallback
OrElse(value, fallback) == IF value = Undefined THEN fallback ELSE value

IsSpace(c) == c \in {9, 10, 11, 12, 13, 32}
IsDigit(c) == c >= Str0 /\ c <= Str0 + 9

RECURSIVE trimStart(_)
trimStart(text) ==
    IF text # <<>> /\ IsSpace(Head(text)) THEN trimStart(Tail(text)) ELSE text

RECURSIVE trimEnd(_)
trimEnd(text) ==
    IF text # <<>> /\ IsSpace(text[Len(text)])
    THEN trimEnd(SubSeq(text, 1, Len(text) - 1)) ELSE text

\* String.prototype.trim
trim(text) == trimEnd(trimStart(text))

\* String.prototype.toLowerCase, for the letters A-Z
toLowerCase(text) ==
    [i \in 1 .. Len(text) |->
        IF text[i] >= 65 /\ text[i] <= 90 THEN text[i] + 32 ELSE text[i]]

\* The longest run of digits text starts with.
RECURSIVE LeadingDigits(_)
LeadingDigits(text) ==
    IF text # <<>> /\ IsDigit(Head(text))
    THEN <<Head(text)>> \o LeadingDigits(Tail(text)) ELSE <<>>

RECURSIVE DigitsValue(_)
DigitsValue(digits) ==
    IF digits = <<>> THEN 0
    ELSE 10 * DigitsValue(SubSeq(digits, 1, Len(digits) - 1))
             + (digits[Len(digits)] - Str0)

\* A parsed number: NaN, or a value in thousandths.
NaN == [nan |-> TRUE, value |-> 0]
Num(v) == [nan |-> FALSE, value |-> v]

Sign(text) == IF text # <<>> /\ Head(text) = 45 THEN -1 ELSE 1
Unsigned(text) ==
    IF text # <<>> /\ Head(text) \in {43, 45} THEN Tail(text) ELSE text

\* Number.parseInt(text, 10): leading white space, a sign, then digits up
\* to the first other character; NaN when there is no digit.
parseInt(text) ==
    LET body == Unsigned(trimStart(text))
        digits == LeadingDigits(body)
    IN  IF digits = <<>> THEN NaN
        ELSE Num(1000 * Sign(trimStart(text)) * DigitsValue(digits))

\* Number.parseFloat(text): as parseInt, with an optional fraction, of
\* which three digits are kept (the texts used here have no more, and no
\* exponent).
parseFloat(text) ==
    LET body == Unsigned(trimStart(text))
        whole == LeadingDigits(body)
        rest == SubSeq(body, Len(whole) + 1, Len(body))
        frac == IF rest # <<>> /\ Head(rest) = 46
                THEN LeadingDigits(Tail(rest)) ELSE <<>>
        milli == SubSeq(frac \o <<Str0, Str0, Str0>>, 1, 3)
    IN  IF whole = <<>> /\ frac = <<>> THEN NaN
        ELSE Num(Sign(trimStart(text))
                     * (1000 * DigitsValue(whole) + DigitsValue(milli)))

\* What a parser gives back: a value, or the message of the Error thrown.
Ok(v) == [error |-> "", value |-> v]
Throw(msg) == [error |-> msg, value |-> 0]

parsePositiveNumber(value, flag) ==
    LET parsed == parseFloat(trim(OrElse(value, <<>>)))
    IN  IF parsed.nan \/ parsed.value <= 0
        THEN Throw(flag \o " must be a positive number")
        ELSE Ok(parsed.value)

\* The result is a whole number, not thousandths.
parsePositiveInteger(value, flag) ==
    LET parsed == parseInt(trim(OrElse(value, <<>>)))
    IN  IF parsed.nan \/ parsed.value <= 0
        THEN Throw(flag \o " must be a positive integer")
        ELSE Ok(parsed.value \div 1000)

parseWidth(value) ==
    LET normalized == toLowerCase(trim(OrElse(value, S_auto)))
        parsed == parseInt(normalized)
    IN  IF normalized = S_auto THEN Ok(Auto)
        ELSE IF parsed.nan \/ parsed.value <= 0
        THEN Throw("--width must be 'auto' or a positive integer")
        ELSE Ok(parsed.value \div 1000)

TERMINAL_PROFILES == {S_auto, S_apple_terminal, S_iterm2, S_warp, S_generic}
LOBSTER_STYLES == {S_auto, S_text, S_image}
COLOR_MODES == {S_auto, S_dark, S_light}

parseTerminalProfile(value) ==
    LET normalized == toLowerCase(trim(OrElse(value, S_auto)))
    IN  IF normalized \in TERMINAL_PROFILES THEN Ok(normalized)
        ELSE Throw("--terminal-profile must be one of auto, apple-terminal, iterm2, warp, generic")

parseSymbolWidth(value) ==
    LET normalized == toLowerCase(trim(OrElse(value, S_auto)))
        parsed == parseInt(normalized)
    IN  IF normalized = S_auto THEN Ok(Auto)
        ELSE IF ~parsed.nan /\ parsed.value \in {1000, 2000}
        THEN Ok(parsed.value \div 1000)
        ELSE Throw("--emoji-width must be one of: auto, 1, 2")

parseLobsterStyle(value) ==
    LET normalized == toLowerCase(trim(OrElse(value, S_auto)))
    IN  IF normalized \in LOBSTER_STYLES THEN Ok(normalized)
        ELSE Throw("--lobster-style must be one of: auto, text, image")

parseColorMode(value) ==
    LET normalized == toLowerCase(trim(OrElse(value, S_auto)))
    IN  IF normalized \in COLOR_MODES THEN Ok(normalized)
        ELSE Throw("--color-mode must be one of: auto, dark, light")

S_60 == <<54, 48>>      \* "60"
S_120 == <<49, 50, 48>>     \* "120"
S_250 == <<50, 53, 48>>     \* "250"

\* The default glyphs.
LOBSTER == <<\H1F99E>>          \* the lobster
YELLOW_SQUARE == <<\H1F7E8>>
ORANGE_SQUARE == <<\H1F7E7>>
WHITE_LARGE_SQUARE == <<\H2B1C>>
BLACK_LARGE_SQUARE == <<\H2B1B>>
WARP_CRITICAL_FALLBACK_SYMBOL == <<\H2588, \H2588>>

NoOptions == <<>>

RECURSIVE FirstError(_)
FirstError(results) ==
    IF results = <<>> THEN ""
    ELSE IF Head(results).error # "" THEN Head(results).error
    ELSE FirstError(Tail(results))

\* parseMonitorOptions(raw), with opts for its argument.  systemColorMode is what detectSystemColorMode()
\* answers, used when the color mode is auto.  The result is Ok(options) or
\* the Error thrown.
parseMonitorOptionsNoThresholdCheck(opts, systemColorMode) ==
    LET warnSeconds == parsePositiveNumber(OrElse(opts.warnSeconds, S_60), "--warn-seconds")
        criticalSeconds ==
            parsePositiveNumber(OrElse(opts.criticalSeconds, S_120), "--critical-seconds")
        refreshMs == parsePositiveInteger(OrElse(opts.refreshMs, S_250), "--refresh-ms")
        width == parseWidth(OrElse(opts.width, S_auto))
        decaySide == IF opts.decaySide = S_right THEN S_right ELSE S_left
        terminalProfile == parseTerminalProfile(OrElse(opts.terminalProfile, S_auto))
        emojiWidth == parseSymbolWidth(OrElse(opts.emojiWidth, S_auto))
        lobsterStyle == parseLobsterStyle(OrElse(opts.lobsterStyle, S_auto))
        colorMode == parseColorMode(OrElse(opts.colorMode, S_auto))
        resolvedColorMode ==
            IF colorMode.value = S_auto THEN systemColorMode ELSE colorMode.value
        okEmoji == OrElse(opts.okEmoji, LOBSTER)
        warnEmoji == OrElse(opts.warnEmoji,
                            IF resolvedColorMode = S_dark
                            THEN YELLOW_SQUARE ELSE ORANGE_SQUARE)
        criticalEmoji == OrElse(opts.criticalEmoji,
                                IF resolvedColorMode = S_dark
                                THEN WHITE_LARGE_SQUARE ELSE BLACK_LARGE_SQUARE)
        thrown == FirstError(<<warnSeconds, criticalSeconds, refreshMs, width,
                               terminalProfile, emojiWidth, lobsterStyle, colorMode>>)
    IN  IF thrown # "" THEN Throw(thrown)
        ELSE IF okEmoji = <<>> THEN Throw("--ok-emoji cannot be empty")
        ELSE IF warnEmoji = <<>> THEN Throw("--warn-emoji cannot be empty")
        ELSE IF criticalEmoji = <<>> THEN Throw("--critical-emoji cannot be empty")
        ELSE Ok([warnSeconds |-> warnSeconds.value,
                 criticalSeconds |-> criticalSeconds.value,
                 okEmoji |-> okEmoji,
                 warnEmoji |-> warnEmoji,
                 criticalEmoji |-> criticalEmoji,
                 decaySide |-> decaySide,
                 refreshMs |-> refreshMs.value,
                 width |-> width.value,
                 hideCursor |-> opts.hideCursor # "false",
                 clearOnEvents |-> opts.clearOnEvents # "false" /\ opts.clear # "false",
                 terminalProfile |-> terminalProfile.value,
                 emojiWidth |-> emojiWidth.value,
                 lobsterStyle |-> lobsterStyle.value,
                 colorMode |-> colorMode.value,
                 resolvedColorMode |-> resolvedColorMode])

parseMonitorOptions(opts, systemColorMode) ==
    LET warnSeconds == parsePositiveNumber(OrElse(opts.warnSeconds, S_60), "--warn-seconds")
        criticalSeconds ==
            parsePositiveNumber(OrElse(opts.criticalSeconds, S_120), "--critical-seconds")
        refreshMs == parsePositiveInteger(OrElse(opts.refreshMs, S_250), "--refresh-ms")
        width == parseWidth(OrElse(opts.width, S_auto))
        decaySide == IF opts.decaySide = S_right THEN S_right ELSE S_left
        terminalProfile == parseTerminalProfile(OrElse(opts.terminalProfile, S_auto))
        emojiWidth == parseSymbolWidth(OrElse(opts.emojiWidth, S_auto))
        lobsterStyle == parseLobsterStyle(OrElse(opts.lobsterStyle, S_auto))
        colorMode == parseColorMode(OrElse(opts.colorMode, S_auto))
        resolvedColorMode ==
            IF colorMode.value = S_auto THEN systemColorMode ELSE colorMode.value
        okEmoji == OrElse(opts.okEmoji, LOBSTER)
        warnEmoji == OrElse(opts.warnEmoji,
                            IF resolvedColorMode = S_dark
                            THEN YELLOW_SQUARE ELSE ORANGE_SQUARE)
        criticalEmoji == OrElse(opts.criticalEmoji,
                                IF resolvedColorMode = S_dark
                                THEN WHITE_LARGE_SQUARE ELSE BLACK_LARGE_SQUARE)
        thrown == FirstError(<<warnSeconds, criticalSeconds, refreshMs, width,
                               terminalProfile, emojiWidth, lobsterStyle, colorMode>>)
    IN  IF thrown # "" THEN Throw(thrown)
        ELSE IF criticalSeconds.value <= warnSeconds.value
        THEN Throw("--critical-seconds must be greater than --warn-seconds")
        ELSE IF okEmoji = <<>> THEN Throw("--ok-emoji cannot be empty")
        ELSE IF warnEmoji = <<>> THEN Throw("--warn-emoji cannot be empty")
        ELSE IF criticalEmoji = <<>> THEN Throw("--critical-emoji cannot be empty")
        ELSE Ok([warnSeconds |-> warnSeconds.value,
                 criticalSeconds |-> criticalSeconds.value,
                 okEmoji |-> okEmoji,
                 warnEmoji |-> warnEmoji,
                 criticalEmoji |-> criticalEmoji,
                 decaySide |-> decaySide,
                 refreshMs |-> refreshMs.value,
                 width |-> width.value,
                 hideCursor |-> opts.hideCursor # "false",
                 clearOnEvents |-> opts.clearOnEvents # "false" /\ opts.clear # "false",
                 terminalProfile |-> terminalProfile.value,
                 emojiWidth |-> emojiWidth.value,
                 lobsterStyle |-> lobsterStyle.value,
                 colorMode |-> colorMode.value,
                 resolvedColorMode |-> resolvedColorMode])

(***************************************************************************)
(* The terminal resolver.                                                  *)
(***************************************************************************)
S_apple_terminal_program == <<97, 112, 112, 108, 101, 95, 116, 101, 114, 109, 105, 110, 97, 108>>   \* "apple_terminal"
S_iterm_app == <<105, 116, 101, 114, 109, 46, 97, 112, 112>>   \* "iterm.app"
S_warpterminal == <<119, 97, 114, 112, 116, 101, 114, 109, 105, 110, 97, 108>>   \* "warpterminal"

ANSI_CLEAR_LINE_PREFIX == <<13, 27, 91, 50, 75>>   \* "\r\u001b[2K"
CARRIAGE_RETURN == <<13>>                          \* "\r"

\* The bitmaps, each abbreviated to a text that tells it from the others.
LOBSTER_RED_PNG_B64 == <<82, 69, 68>>
LOBSTER_YELLOW_PNG_B64 == <<89, 69, 76, 76, 79, 87>>
LOBSTER_ORANGE_PNG_B64 == <<79, 82, 65, 78, 71, 69>>
LOBSTER_WHITE_PNG_B64 == <<87, 72, 73, 84, 69>>
LOBSTER_BLACK_PNG_B64 == <<66, 76, 65, 67, 75>>

\* String.prototype.includes
includes(text, part) ==
    \E i \in 1 .. (Len(text) - Len(part) + 1) :
        SubSeq(text, i, i + Len(part) - 1) = part

\* parseExplicitColorMode answers null.
NoColorMode == <<>>

parseExplicitColorMode(value) ==
    LET normalized == toLowerCase(trim(OrElse(value, <<>>)))
    IN  IF normalized = S_dark \/ normalized = S_light THEN normalized ELSE NoColorMode

\* text.split(";").at(-1)
LastField(text) ==
    LET semicolons == {i \in 1 .. Len(text) : text[i] = 59}
    IN  IF semicolons = {} THEN text
        ELSE SubSeq(text, 1 + CHOOSE i \in semicolons : \A j \in semicolons : j <= i,
                    Len(text))

\* detectSystemColorMode reading OPENCLAW_COLOR_MODE before
\* OPENCLAW_MONITOR_COLOR_MODE.
detectSystemColorModeGeneralFirst(params) ==
    LET env == params.env
        monitorMode == parseExplicitColorMode(env.OPENCLAW_COLOR_MODE)
        explicit == IF monitorMode # NoColorMode THEN monitorMode
                    ELSE parseExplicitColorMode(env.OPENCLAW_MONITOR_COLOR_MODE)
        colorfgbg == trim(OrElse(env.COLORFGBG, <<>>))
        parsed == parseInt(LastField(colorfgbg))
    IN  IF explicit # NoColorMode THEN explicit
        ELSE IF params.platform = "darwin"
        THEN IF params.appleInterfaceStyle.throws THEN S_light
             ELSE IF includes(toLowerCase(params.appleInterfaceStyle.text), S_dark)
             THEN S_dark
             ELSE S_light
        ELSE IF colorfgbg # <<>> /\ ~parsed.nan
        THEN (IF parsed.value <= 6000 THEN S_dark ELSE S_light)
        ELSE S_dark

\* params.platform is process.platform, params.appleInterfaceStyle what
\* reading AppleInterfaceStyle gives: a text, or an exception thrown.
detectSystemColorMode(params) ==
    LET env == params.env
        monitorMode == parseExplicitColorMode(env.OPENCLAW_MONITOR_COLOR_MODE)
        explicit == IF monitorMode # NoColorMode THEN monitorMode
                    ELSE parseExplicitColorMode(env.OPENCLAW_COLOR_MODE)
        colorfgbg == trim(OrElse(env.COLORFGBG, <<>>))
        parsed == parseInt(LastField(colorfgbg))
    IN  IF explicit # NoColorMode THEN explicit
        ELSE IF params.platform = "darwin"
        THEN IF params.appleInterfaceStyle.throws THEN S_light
             ELSE IF includes(toLowerCase(params.appleInterfaceStyle.text), S_dark)
             THEN S_dark
             ELSE S_light
        ELSE IF colorfgbg # <<>> /\ ~parsed.nan
        THEN (IF parsed.value <= 6000 THEN S_dark ELSE S_light)
        ELSE S_dark

TERMINAL_DEFAULTS(profile) ==
    IF profile = S_apple_terminal
    THEN [drawStrategy |-> "carriage", symbolWidth |-> 2, supportsCursorHide |-> TRUE]
    ELSE IF profile = S_iterm2
    THEN [drawStrategy |-> "carriage", symbolWidth |-> 2, supportsCursorHide |-> TRUE]
    ELSE IF profile = S_warp
    THEN [drawStrategy |-> "clear-line", symbolWidth |-> 2, supportsCursorHide |-> TRUE]
    ELSE [drawStrategy |-> "carriage", symbolWidth |-> Auto, supportsCursorHide |-> TRUE]

\* detectTerminalProfileFromEnv comparing TERM_PROGRAM as it is spelled.
detectTerminalProfileFromEnvCaseSensitive(env) ==
    LET termProgram == OrElse(env.TERM_PROGRAM, <<>>)
    IN  IF termProgram = S_apple_terminal_program THEN S_apple_terminal
        ELSE IF termProgram = S_iterm_app THEN S_iterm2
        ELSE IF termProgram = S_warpterminal \/ includes(termProgram, S_warp) THEN S_warp
        ELSE S_generic

\* env is the environment, of which TERM_PROGRAM is read.
detectTerminalProfileFromEnv(env) ==
    LET termProgram == toLowerCase(OrElse(env.TERM_PROGRAM, <<>>))
    IN  IF termProgram = S_apple_terminal_program THEN S_apple_terminal
        ELSE IF termProgram = S_iterm_app THEN S_iterm2
        ELSE IF termProgram = S_warpterminal \/ includes(termProgram, S_warp) THEN S_warp
        ELSE S_generic

\* The escape sequence of an inline image: the name stands for its base64
\* text, and the cell width 2 and height 1 are the defaults of the code.
buildIterm2InlineImageSequence(pngBase64, name) ==
    <<27, 93>> \o <<49, 51, 51, 55, 59, 70, 105, 108, 101, 61, 110, 97, 109, 101, 61>> \o name
        \o <<59, 119, 105, 100, 116, 104, 61, 50, 59, 104, 101, 105, 103, 104, 116, 61, 49, 59, 105, 110, 108, 105, 110, 101, 61, 49, 59, 112, 114, 101, 115, 101, 114, 118, 101, 65, 115, 112, 101, 99, 116, 82, 97, 116, 105, 111, 61, 49, 58>>
        \o pngBase64 \o <<7>>

buildIterm2LobsterSymbols(colorMode) ==
    [ok |-> buildIterm2InlineImageSequence(LOBSTER_RED_PNG_B64, <<108, 111, 98, 115, 116, 101, 114, 45, 111, 107>>),
     warn |-> buildIterm2InlineImageSequence(
                  IF colorMode = S_dark THEN LOBSTER_YELLOW_PNG_B64
                  ELSE LOBSTER_ORANGE_PNG_B64, <<108, 111, 98, 115, 116, 101, 114, 45, 119, 97, 114, 110>>),
     critical |-> buildIterm2InlineImageSequence(
                  IF colorMode = S_dark THEN LOBSTER_WHITE_PNG_B64
                  ELSE LOBSTER_BLACK_PNG_B64, <<108, 111, 98, 115, 116, 101, 114, 45, 99, 114, 105, 116, 105, 99, 97, 108>>)]

\* imageSymbols: null
NoImageSymbols == [ok |-> <<>>, warn |-> <<>>, critical |-> <<>>]

\* No process yet.
NoHost == <<>>

\* The renderer called without a runtime configuration.
NoRuntime ==
    [defined |-> FALSE, profile |-> <<>>, drawPrefix |-> <<>>, symbolWidth |-> Auto,
     supportsCursorHide |-> FALSE, lobsterStyle |-> <<>>, colorMode |-> <<>>,
     imageSymbols |-> NoImageSymbols]

\* resolveRuntimeTerminalConfig honoring an image request on every profile.
resolveRuntimeTerminalConfigNoDowngrade(opts, env) ==
    LET profile == IF opts.terminalProfile = S_auto
                   THEN detectTerminalProfileFromEnv(env)
                   ELSE opts.terminalProfile
        defaults == TERMINAL_DEFAULTS(profile)
        drawPrefix == IF defaults.drawStrategy = "clear-line"
                      THEN ANSI_CLEAR_LINE_PREFIX ELSE CARRIAGE_RETURN
        effectiveLobsterStyle ==
            IF opts.lobsterStyle = S_auto THEN S_text
            ELSE opts.lobsterStyle
        effectiveColorMode ==
            IF opts.colorMode = S_auto THEN opts.resolvedColorMode ELSE opts.colorMode
        symbolWidth ==
            IF effectiveLobsterStyle = S_image
            THEN (IF opts.emojiWidth = Auto THEN 2 ELSE opts.emojiWidth)
            ELSE (IF opts.emojiWidth = Auto THEN defaults.symbolWidth ELSE opts.emojiWidth)
    IN  [defined |-> TRUE,
         profile |-> profile,
         drawPrefix |-> drawPrefix,
         symbolWidth |-> symbolWidth,
         supportsCursorHide |-> defaults.supportsCursorHide,
         lobsterStyle |-> effectiveLobsterStyle,
         colorMode |-> effectiveColorMode,
         imageSymbols |-> IF effectiveLobsterStyle = S_image
                          THEN buildIterm2LobsterSymbols(effectiveColorMode)
                          ELSE NoImageSymbols]

resolveRuntimeTerminalConfig(opts, env) ==
    LET profile == IF opts.terminalProfile = S_auto
                   THEN detectTerminalProfileFromEnv(env)
                   ELSE opts.terminalProfile
        defaults == TERMINAL_DEFAULTS(profile)
        drawPrefix == IF defaults.drawStrategy = "clear-line"
                      THEN ANSI_CLEAR_LINE_PREFIX ELSE CARRIAGE_RETURN
        effectiveLobsterStyle ==
            IF opts.lobsterStyle = S_auto THEN S_text
            ELSE IF opts.lobsterStyle = S_image /\ profile # S_iterm2 THEN S_text
            ELSE opts.lobsterStyle
        effectiveColorMode ==
            IF opts.colorMode = S_auto THEN opts.resolvedColorMode ELSE opts.colorMode
        symbolWidth ==
            IF effectiveLobsterStyle = S_image
            THEN (IF opts.emojiWidth = Auto THEN 2 ELSE opts.emojiWidth)
            ELSE (IF opts.emojiWidth = Auto THEN defaults.symbolWidth ELSE opts.emojiWidth)
    IN  [defined |-> TRUE,
         profile |-> profile,
         drawPrefix |-> drawPrefix,
         symbolWidth |-> symbolWidth,
         supportsCursorHide |-> defaults.supportsCursorHide,
         lobsterStyle |-> effectiveLobsterStyle,
         colorMode |-> effectiveColorMode,
         imageSymbols |-> IF effectiveLobsterStyle = S_image
                          THEN buildIterm2LobsterSymbols(effectiveColorMode)
                          ELSE NoImageSymbols]

(***************************************************************************)
(* Display width.                                                          *)
(***************************************************************************)
\* /\p{Mark}/u, for the combining blocks U+0300-036F and U+20D0-20F0, the
\* ideographic tone marks U+302A-302D, the kana voicing marks U+3099-309A
\* and the variation selectors supplement U+E0100-E01EF.
COMBINING_MARK_RE(codePoint) ==
    \/ codePoint >= \H300 /\ codePoint <= \H36F
    \/ codePoint >= \H20D0 /\ codePoint <= \H20F0
    \/ codePoint >= \H302A /\ codePoint <= \H302D
    \/ codePoint >= \H3099 /\ codePoint <= \H309A
    \/ codePoint >= \HE0100 /\ codePoint <= \HE01EF

\* /\p{Extended_Pictographic}/u, for the copyright and registered signs,
\* the large squares, the coloured squares and the block the lobster is in.
EXTENDED_PICTOGRAPHIC_RE(codePoint) ==
    \/ codePoint \in {\HA9, \HAE, \H2B1B, \H2B1C}
    \/ codePoint >= \H1F7E0 /\ codePoint <= \H1F7EB
    \/ codePoint >= \H1F947 /\ codePoint <= \H1F9FF

isFullwidthCodePoint(codePoint) ==
    /\ codePoint >= \H1100
    /\ \/ codePoint <= \H115F
       \/ codePoint = \H2329
       \/ codePoint = \H232A
       \/ codePoint >= \H2E80 /\ codePoint <= \H3247 /\ codePoint # \H303F
       \/ codePoint >= \H3250 /\ codePoint <= \H4DBF
       \/ codePoint >= \H4E00 /\ codePoint <= \HA4C6
       \/ codePoint >= \HA960 /\ codePoint <= \HA97C
       \/ codePoint >= \HAC00 /\ codePoint <= \HD7A3
       \/ codePoint >= \HF900 /\ codePoint <= \HFAFF
       \/ codePoint >= \HFE10 /\ codePoint <= \HFE19
       \/ codePoint >= \HFE30 /\ codePoint <= \HFE6B
       \/ codePoint >= \HFF01 /\ codePoint <= \HFF60
       \/ codePoint >= \HFFE0 /\ codePoint <= \HFFE6
       \/ codePoint >= \H1B000 /\ codePoint <= \H1B001
       \/ codePoint >= \H1F200 /\ codePoint <= \H1F251
       \/ codePoint >= \H20000 /\ codePoint <= \H3FFFD

charDisplayWidthWideFirst(codePoint) ==
    IF codePoint = 0 THEN 0
    ELSE IF codePoint < \H20 \/ (codePoint >= \H7F /\ codePoint <= \H9F) THEN 0
    ELSE IF codePoint = \H200D \/ (codePoint >= \HFE00 /\ codePoint <= \HFE0F) THEN 0
    ELSE IF EXTENDED_PICTOGRAPHIC_RE(codePoint) \/ isFullwidthCodePoint(codePoint) THEN 2
    ELSE IF COMBINING_MARK_RE(codePoint) THEN 0
    ELSE 1

charDisplayWidth(codePoint) ==
    IF codePoint = 0 THEN 0
    ELSE IF codePoint < \H20 \/ (codePoint >= \H7F /\ codePoint <= \H9F) THEN 0
    ELSE IF codePoint = \H200D \/ (codePoint >= \HFE00 /\ codePoint <= \HFE0F) THEN 0
    ELSE IF COMBINING_MARK_RE(codePoint) THEN 0
    ELSE IF EXTENDED_PICTOGRAPHIC_RE(codePoint) \/ isFullwidthCodePoint(codePoint) THEN 2
    ELSE 1

RECURSIVE displayWidth(_)
displayWidth(text) ==
    IF text = <<>> THEN 0
    ELSE charDisplayWidth(Head(text)) + displayWidth(Tail(text))

\* Array.from(text) with char.codePointAt(0): the code points of a string
\* given as its UTF-16 code units.  A high surrogate followed by a low one
\* is one code point; a surrogate alone is taken as it is.
IsHighSurrogate(unit) == unit >= \HD800 /\ unit <= \HDBFF
IsLowSurrogate(unit) == unit >= \HDC00 /\ unit <= \HDFFF

RECURSIVE codePoints(_)
codePoints(codeUnits) ==
    IF codeUnits = <<>> THEN <<>>
    ELSE IF /\ Len(codeUnits) >= 2
            /\ IsHighSurrogate(codeUnits[1])
            /\ IsLowSurrogate(codeUnits[2])
    THEN <<\H10000 + (codeUnits[1] - \HD800) * \H400 + (codeUnits[2] - \HDC00)>>
             \o codePoints(SubSeq(codeUnits, 3, Len(codeUnits)))
    ELSE <<codeUnits[1]>> \o codePoints(Tail(codeUnits))

(***************************************************************************)
(* The bar renderer.  Seconds are carried in thousandths, as in            *)
(* formatElapsed.                                                          *)
(***************************************************************************)
resolveSymbolWidth(symbol, widthOverride) ==
    IF widthOverride = Auto THEN Max(1, displayWidth(symbol)) ELSE widthOverride

\* repeatToWidth that never forces a first glyph.
repeatToWidthNoMinimum(symbol, columns, minOne, widthOverride) ==
    LET symbolWidth == resolveSymbolWidth(symbol, widthOverride)
        count == columns \div symbolWidth
    IN  IF columns <= 0 THEN [value |-> <<>>, usedColumns |-> 0]
        ELSE IF count <= 0 THEN [value |-> <<>>, usedColumns |-> 0]
        ELSE [value |-> repeat(symbol, count), usedColumns |-> count * symbolWidth]

repeatToWidth(symbol, columns, minOne, widthOverride) ==
    LET symbolWidth == resolveSymbolWidth(symbol, widthOverride)
        floored == columns \div symbolWidth
        count == IF floored <= 0 /\ minOne THEN 1 ELSE floored
    IN  IF columns <= 0 THEN [value |-> <<>>, usedColumns |-> 0]
        ELSE IF count <= 0 THEN [value |-> <<>>, usedColumns |-> 0]
        ELSE [value |-> repeat(symbol, count), usedColumns |-> count * symbolWidth]

\* buildBarArea taking the fill as it is given, without clamping it.
buildBarAreaUnclamped(symbol, filledColumns, columns, decaySide, symbolWidth) ==
    LET repeated == repeatToWidth(symbol, filledColumns, filledColumns > 0, symbolWidth)
        gap == repeat(<<Space>>, Max(0, columns - repeated.usedColumns))
    IN  IF columns <= 0 THEN <<>>
        ELSE IF decaySide = S_left THEN gap \o repeated.value
        ELSE repeated.value \o gap

buildBarAreaIgnoringSide(symbol, filledColumns, columns, decaySide, symbolWidth) ==
    LET clamped == Max(0, Min(filledColumns, columns))
        repeated == repeatToWidth(symbol, clamped, clamped > 0, symbolWidth)
        gap == repeat(<<Space>>, Max(0, columns - repeated.usedColumns))
    IN  IF columns <= 0 THEN <<>>
        ELSE gap \o repeated.value

\* filledColumns is a whole number here: the code floors it.
buildBarArea(symbol, filledColumns, columns, decaySide, symbolWidth) ==
    LET clamped == Max(0, Min(filledColumns, columns))
        repeated == repeatToWidth(symbol, clamped, clamped > 0, symbolWidth)
        gap == repeat(<<Space>>, Max(0, columns - repeated.usedColumns))
    IN  IF columns <= 0 THEN <<>>
        ELSE IF decaySide = S_left THEN gap \o repeated.value
        ELSE repeated.value \o gap

\* pickStateSymbol putting the fallback block in place of any critical
\* glyph on Warp.
pickStateSymbolAnyCriticalGlyph(opts, runtimeConfig, state) ==
    IF runtimeConfig.defined /\ runtimeConfig.lobsterStyle = S_image
           /\ runtimeConfig.imageSymbols # NoImageSymbols
    THEN runtimeConfig.imageSymbols[state]
    ELSE IF /\ runtimeConfig.defined
            /\ runtimeConfig.profile = S_warp
            /\ runtimeConfig.lobsterStyle # S_image
            /\ state = "critical"
    THEN WARP_CRITICAL_FALLBACK_SYMBOL
    ELSE IF state = "ok" THEN opts.okEmoji
    ELSE IF state = "warn" THEN opts.warnEmoji
    ELSE opts.criticalEmoji

\* pickStateSymbol letting a text glyph of the options stand in the image
\* style.
pickStateSymbolTextOverImage(opts, runtimeConfig, state) ==
    IF /\ runtimeConfig.defined
       /\ runtimeConfig.profile = S_warp
       /\ runtimeConfig.lobsterStyle # S_image
       /\ state = "critical"
       /\ opts.criticalEmoji = WHITE_LARGE_SQUARE
    THEN WARP_CRITICAL_FALLBACK_SYMBOL
    ELSE IF state = "ok" THEN opts.okEmoji
    ELSE IF state = "warn" THEN opts.warnEmoji
    ELSE opts.criticalEmoji

pickStateSymbol(opts, runtimeConfig, state) ==
    IF runtimeConfig.defined /\ runtimeConfig.lobsterStyle = S_image
           /\ runtimeConfig.imageSymbols # NoImageSymbols
    THEN runtimeConfig.imageSymbols[state]
    ELSE IF /\ runtimeConfig.defined
            /\ runtimeConfig.profile = S_warp
            /\ runtimeConfig.lobsterStyle # S_image
            /\ state = "critical"
            /\ opts.criticalEmoji = WHITE_LARGE_SQUARE
    THEN WARP_CRITICAL_FALLBACK_SYMBOL
    ELSE IF state = "ok" THEN opts.okEmoji
    ELSE IF state = "warn" THEN opts.warnEmoji
    ELSE opts.criticalEmoji

\* A rounding that drops the fraction instead of going to the nearest whole
\* number.
MathRoundDown(dividend, divisor) == dividend \div divisor

\* Math.round of the quotient of two whole numbers, the divisor positive:
\* the nearest whole number, a half going up.
MathRound(dividend, divisor) == (2 * dividend + divisor) \div (2 * divisor)

renderMonitorLineWarnExclusive(opts, idle, columns, runtimeConfig) ==
    LET idleSeconds == Max(0, idle)
        prefix == <<LBracket>> \o formatElapsed(idleSeconds) \o <<RBracket, Space>>
        availableColumns == Max(0, columns - displayWidth(prefix))
        symbolWidth == IF runtimeConfig.defined
                       THEN runtimeConfig.symbolWidth ELSE opts.emojiWidth
        filledColumns ==
            MathRound(availableColumns * Max(0, opts.criticalSeconds - idleSeconds),
                      opts.criticalSeconds)
        state == IF idleSeconds > opts.warnSeconds THEN "warn" ELSE "ok"
    IN  IF idleSeconds >= opts.criticalSeconds
        THEN prefix \o buildBarArea(pickStateSymbol(opts, runtimeConfig, "critical"),
                                    availableColumns, availableColumns, S_right,
                                    symbolWidth)
        ELSE prefix \o buildBarArea(pickStateSymbol(opts, runtimeConfig, state),
                                    filledColumns, availableColumns, opts.decaySide,
                                    symbolWidth)

renderMonitorLineCriticalFollowsSide(opts, idle, columns, runtimeConfig) ==
    LET idleSeconds == Max(0, idle)
        prefix == <<LBracket>> \o formatElapsed(idleSeconds) \o <<RBracket, Space>>
        availableColumns == Max(0, columns - displayWidth(prefix))
        symbolWidth == IF runtimeConfig.defined
                       THEN runtimeConfig.symbolWidth ELSE opts.emojiWidth
        filledColumns ==
            MathRound(availableColumns * Max(0, opts.criticalSeconds - idleSeconds),
                      opts.criticalSeconds)
        state == IF idleSeconds >= opts.warnSeconds THEN "warn" ELSE "ok"
    IN  IF idleSeconds >= opts.criticalSeconds
        THEN prefix \o buildBarArea(pickStateSymbol(opts, runtimeConfig, "critical"),
                                    availableColumns, availableColumns, opts.decaySide,
                                    symbolWidth)
        ELSE prefix \o buildBarArea(pickStateSymbol(opts, runtimeConfig, state),
                                    filledColumns, availableColumns, opts.decaySide,
                                    symbolWidth)

\* renderMonitorLine keeping one column for the bar however narrow the
\* terminal is.
renderMonitorLineAtLeastOneColumn(opts, idle, columns, runtimeConfig) ==
    LET idleSeconds == Max(0, idle)
        prefix == <<LBracket>> \o formatElapsed(idleSeconds) \o <<RBracket, Space>>
        availableColumns == Max(1, columns - displayWidth(prefix))
        symbolWidth == IF runtimeConfig.defined
                       THEN runtimeConfig.symbolWidth ELSE opts.emojiWidth
        filledColumns ==
            MathRound(availableColumns * Max(0, opts.criticalSeconds - idleSeconds),
                      opts.criticalSeconds)
        state == IF idleSeconds >= opts.warnSeconds THEN "warn" ELSE "ok"
    IN  IF idleSeconds >= opts.criticalSeconds
        THEN prefix \o buildBarArea(pickStateSymbol(opts, runtimeConfig, "critical"),
                                    availableColumns, availableColumns, S_right,
                                    symbolWidth)
        ELSE prefix \o buildBarArea(pickStateSymbol(opts, runtimeConfig, state),
                                    filledColumns, availableColumns, opts.decaySide,
                                    symbolWidth)

\* renderMonitorLine filling the bar with the fraction of the time that has
\* passed instead of the fraction that remains.
renderMonitorLineFillGrows(opts, idle, columns, runtimeConfig) ==
    LET idleSeconds == Max(0, idle)
        prefix == <<LBracket>> \o formatElapsed(idleSeconds) \o <<RBracket, Space>>
        availableColumns == Max(0, columns - displayWidth(prefix))
        symbolWidth == IF runtimeConfig.defined
                       THEN runtimeConfig.symbolWidth ELSE opts.emojiWidth
        filledColumns ==
            MathRound(availableColumns * Min(idleSeconds, opts.criticalSeconds),
                      opts.criticalSeconds)
        state == IF idleSeconds >= opts.warnSeconds THEN "warn" ELSE "ok"
    IN  IF idleSeconds >= opts.criticalSeconds
        THEN prefix \o buildBarArea(pickStateSymbol(opts, runtimeConfig, "critical"),
                                    availableColumns, availableColumns, S_right,
                                    symbolWidth)
        ELSE prefix \o buildBarArea(pickStateSymbol(opts, runtimeConfig, state),
                                    filledColumns, availableColumns, opts.decaySide,
                                    symbolWidth)

\* idle is idleMs; idleSeconds, in thousandths, is the same number.
renderMonitorLine(opts, idle, columns, runtimeConfig) ==
    LET idleSeconds == Max(0, idle)
        prefix == <<LBracket>> \o formatElapsed(idleSeconds) \o <<RBracket, Space>>
        availableColumns == Max(0, columns - displayWidth(prefix))
        symbolWidth == IF runtimeConfig.defined
                       THEN runtimeConfig.symbolWidth ELSE opts.emojiWidth
        filledColumns ==
            MathRound(availableColumns * Max(0, opts.criticalSeconds - idleSeconds),
                      opts.criticalSeconds)
        state == IF idleSeconds >= opts.warnSeconds THEN "warn" ELSE "ok"
    IN  IF idleSeconds >= opts.criticalSeconds
        THEN prefix \o buildBarArea(pickStateSymbol(opts, runtimeConfig, "critical"),
                                    availableColumns, availableColumns, S_right,
                                    symbolWidth)
        ELSE prefix \o buildBarArea(pickStateSymbol(opts, runtimeConfig, state),
                                    filledColumns, availableColumns, opts.decaySide,
                                    symbolWidth)

ElapsedIdle == secIn = 0 /\ elapsed = <<>>
\* No width has been returned.
NoWidth == -1
WidthIdle == units = <<>> /\ measured = NoWidth

\* No error.
NoError == [isError |-> FALSE, name |-> ""]

\* The process before runMonitorCommand is called.
NoTty == [stdout |-> FALSE, stdin |-> FALSE, columns |-> 0]

\* The other parts while one part is exercised: runMonitorCommand not called.
\* No bar has been asked for.
NoBarIn ==
    [symbol |-> <<>>, filledColumns |-> 0, totalColumns |-> 0,
     decaySide |-> <<>>, symbolWidth |-> Auto]
BarIdle == barIn = NoBarIn /\ bpc = "idle" /\ barArea = <<>>

LoopIdle ==
    /\ lpc = "idle" /\ tty = NoTty /\ handlers = {} /\ aborted = FALSE
    /\ needsFullClear = FALSE /\ shouldHideCursor = FALSE /\ warned = FALSE
    /\ out = <<>> /\ clock = 0 /\ lastActivityMs = 0 /\ previousWidth = 0
    /\ ticks = 0 /\ failure = "none" /\ waitError = NoError /\ result = "running"
CliIdle ==
    /\ raw = <<>> /\ pc = "idle" /\ options = NoOptions /\ error = ""
    /\ runtime = NoRuntime /\ host = NoHost
    /\ idleMs = 0 /\ totalColumns = 0 /\ line = <<>>

WatcherInit ==
    /\ disk \in [Paths -> DiskEntries]
    /\ states = <<>>
    /\ sawGrowth = FALSE
    /\ flagged = {}
    /\ scans = 0
    /\ change = NoChange
    /\ ElapsedIdle /\ CliIdle /\ WidthIdle /\ LoopIdle /\ BarIdle

WatcherNext == WatcherScan

SpecWatcher == WatcherInit /\ [][WatcherNext]_vars

(***************************************************************************)
(* formatElapsed applied to one argument.                                  *)
(***************************************************************************)
MaxElapsed == 3700     \* every whole second up to here is an argument

\* Thousandths of a second: every second of the first hour and a little
\* more, with and without a fraction, negative values, and whole hours up
\* to three digits.
ElapsedInputs ==
    {1000 * s + f : s \in (-2) .. MaxElapsed, f \in {0, 500, 999}}
        \cup {1000 * (3600 * h + 60 * m + s) :
                  h \in {1, 2, 9, 10, 99, 100, 101, 500},
                  m \in {0, 1, 59}, s \in {0, 1, 59}}

WatcherIdle ==
    /\ disk = <<>> /\ states = <<>> /\ sawGrowth = FALSE /\ flagged = {}
    /\ scans = 0 /\ change = <<>>

ElapsedInit ==
    /\ secIn \in ElapsedInputs
    /\ elapsed = <<>>
    /\ WatcherIdle /\ CliIdle /\ WidthIdle /\ LoopIdle /\ BarIdle

FormatElapsed ==
    /\ elapsed = <<>>
    /\ elapsed' = formatElapsed(secIn)
    /\ UNCHANGED <<barVars, secIn, watcherVars, cliVars, widthVars, loopVars>>

ElapsedNext == FormatElapsed

SpecElapsed == ElapsedInit /\ [][ElapsedNext]_vars

(***************************************************************************)
(* The command: parseMonitorOptions(raw), then as runMonitorCommand does,  *)
(* resolveRuntimeTerminalConfig(options) and renderMonitorLine; the tests  *)
(* also render without a runtime configuration.                            *)
(***************************************************************************)
MaxColumns == 14       \* widest terminal rendered to

T_5 == <<53>>          \* "5"
T_10 == <<49, 48>>    \* "10"
T_0 == <<48>>          \* "0"
T_1 == <<49>>   \* "1"
T_2 == <<50>>          \* "2"
T_3 == <<51>>          \* "3"
T_0_5 == <<48, 46, 53>>      \* "0.5"
T_1_5 == <<49, 46, 53>>      \* "1.5"
T_5_spaced == <<32, 53, 32>>   \* " 5 "
T_10s == <<49, 48, 115>>      \* "10s"
T_abc == <<97, 98, 99>>      \* "abc"
T_O == <<79>>         \* "O"
T_W == <<87>>         \* "W"
T_C == <<67>>         \* "C"
T_X == <<88>>         \* "X"
T_Apple_Terminal == <<65, 112, 112, 108, 101, 95, 84, 101, 114, 109, 105, 110, 97, 108>>   \* "Apple_Terminal"
T_iTerm_app == <<105, 84, 101, 114, 109, 46, 97, 112, 112>>   \* "iTerm.app"
T_WarpTerminal == <<87, 97, 114, 112, 84, 101, 114, 109, 105, 110, 97, 108>>   \* "WarpTerminal"
T_UnknownTerm == <<85, 110, 107, 110, 111, 119, 110, 84, 101, 114, 109>>   \* "UnknownTerm"

\* No option given on the command line.
RawNone ==
    [warnSeconds |-> Undefined, criticalSeconds |-> Undefined,
     okEmoji |-> Undefined, warnEmoji |-> Undefined, criticalEmoji |-> Undefined,
     decaySide |-> Undefined, refreshMs |-> Undefined, width |-> Undefined,
     hideCursor |-> "undefined", clearOnEvents |-> "undefined", clear |-> "undefined",
     terminalProfile |-> Undefined, emojiWidth |-> Undefined,
     lobsterStyle |-> Undefined, colorMode |-> Undefined]

\* <<warnSeconds, criticalSeconds>> as typed: in order, equal, reversed,
\* with a fraction, with white space and a trailing unit, and not numbers.
ThresholdTexts ==
    {<<Undefined, Undefined>>, <<T_5, T_10>>, <<T_0_5, T_1_5>>, <<T_5_spaced, T_10s>>,
     <<S_120, S_60>>, <<T_10, T_10>>, <<Undefined, S_60>>, <<T_5, T_abc>>, <<T_0, T_10>>}

\* Thresholds, glyphs, decay side and symbol width for the renderer.
RenderRaws ==
    {[RawNone EXCEPT !.warnSeconds = t[1], !.criticalSeconds = t[2],
                     !.okEmoji = g[1], !.warnEmoji = g[2], !.criticalEmoji = g[3],
                     !.decaySide = d, !.emojiWidth = w, !.colorMode = S_dark] :
        t \in ThresholdTexts,
        g \in {<<Undefined, Undefined, Undefined>>, <<T_O, T_W, T_C>>},
        d \in {Undefined, S_right},
        w \in {Undefined, T_2}}

\* Terminal profile, glyph style and color mode for the resolver.
ProfileRaws ==
    {[RawNone EXCEPT !.warnSeconds = T_5, !.criticalSeconds = T_10,
                     !.criticalEmoji = c, !.terminalProfile = p,
                     !.lobsterStyle = l, !.colorMode = m] :
        c \in {Undefined, T_X, WHITE_LARGE_SQUARE},
        p \in {Undefined, S_apple_terminal, S_iterm2, S_warp, S_generic},
        l \in {Undefined, S_text, S_image},
        m \in {Undefined, S_light}}

\* One option each that the parser has to judge.
SingleRaws ==
    {[RawNone EXCEPT !.okEmoji = <<>>],
     [RawNone EXCEPT !.warnEmoji = <<>>],
     [RawNone EXCEPT !.criticalEmoji = <<>>],
     [RawNone EXCEPT !.width = T_abc],
     [RawNone EXCEPT !.width = T_0],
     [RawNone EXCEPT !.width = T_10, !.decaySide = S_left, !.hideCursor = "false"],
     [RawNone EXCEPT !.refreshMs = T_0],
     [RawNone EXCEPT !.refreshMs = T_1_5, !.clear = "false"],
     [RawNone EXCEPT !.emojiWidth = T_3],
     [RawNone EXCEPT !.terminalProfile = T_abc],
     [RawNone EXCEPT !.lobsterStyle = T_abc],
     [RawNone EXCEPT !.colorMode = T_abc],
     [RawNone EXCEPT !.warnSeconds = S_120, !.criticalSeconds = S_60, !.width = T_abc],
     [RawNone EXCEPT !.decaySide = T_abc],
     [RawNone EXCEPT !.width = T_10s],
     [RawNone EXCEPT !.emojiWidth = T_1_5]}

\* Custom text glyphs together with the image style on iTerm2.
ImageRaws ==
    {[RawNone EXCEPT !.warnSeconds = T_5, !.criticalSeconds = T_10,
                     !.okEmoji = T_O, !.warnEmoji = T_W, !.criticalEmoji = T_C,
                     !.decaySide = d, !.terminalProfile = S_iterm2,
                     !.lobsterStyle = S_image, !.colorMode = m] :
        d \in {Undefined, S_right}, m \in {S_dark, S_light}}

RawSamples == RenderRaws \cup ProfileRaws \cup SingleRaws \cup ImageRaws

\* What TERM_PROGRAM holds.
TermPrograms == {Undefined, T_Apple_Terminal, T_iTerm_app, T_WarpTerminal, T_UnknownTerm}

\* A Linux process with none of the variables set.
HostNone ==
    [env |-> [TERM_PROGRAM |-> Undefined, OPENCLAW_MONITOR_COLOR_MODE |-> Undefined,
              OPENCLAW_COLOR_MODE |-> Undefined, COLORFGBG |-> Undefined],
     platform |-> "linux",
     appleInterfaceStyle |-> [throws |-> TRUE, text |-> <<>>]]

TermHosts == {[HostNone EXCEPT !.env.TERM_PROGRAM = t] : t \in TermPrograms}

\* Idle times in milliseconds: before, at, between and after the
\* thresholds of the options, negative, and past an hour.
IdleSamples(opts) ==
    {-1000, 0, 2500, 3600000,
     opts.warnSeconds - 1, opts.warnSeconds,
     (opts.warnSeconds + opts.criticalSeconds) \div 2,
     opts.criticalSeconds - 1, opts.criticalSeconds, opts.criticalSeconds + 1000}

CliInit ==
    /\ \/ raw \in RenderRaws \cup SingleRaws \cup ImageRaws /\ host = HostNone
       \/ raw \in ProfileRaws /\ host \in TermHosts
    /\ pc = "start"
    /\ options = NoOptions
    /\ error = ""
    /\ runtime = NoRuntime
    /\ idleMs = 0
    /\ totalColumns = 0
    /\ line = <<>>
    /\ WatcherIdle /\ ElapsedIdle /\ WidthIdle /\ LoopIdle /\ BarIdle

\* const options = parseMonitorOptions(raw)
Parse ==
    /\ pc = "start"
    /\ \E r \in {parseMonitorOptions(raw, detectSystemColorMode(host))} :
        IF r.error # ""
        THEN /\ pc' = "failed"
             /\ error' = r.error
             /\ options' = NoOptions
        ELSE /\ pc' = "parsed"
             /\ error' = ""
             /\ options' = r.value
    /\ UNCHANGED <<barVars, raw, runtime, host, idleMs, totalColumns, line,
                   watcherVars, elapsedVars, widthVars, loopVars>>

\* const terminalConfig = resolveRuntimeTerminalConfig(options)
Resolve ==
    /\ pc = "parsed"
    /\ runtime' = resolveRuntimeTerminalConfig(options, host.env)
    /\ pc' = "resolved"
    /\ UNCHANGED <<barVars, raw, options, error, host, idleMs, totalColumns, line,
                   watcherVars, elapsedVars, widthVars, loopVars>>

\* const line = renderMonitorLine(options, idleMs, totalColumns, runtime)
Render ==
    /\ pc \in {"parsed", "resolved"}
    /\ \E idle \in IdleSamples(options), columns \in 1 .. MaxColumns :
        /\ idleMs' = idle
        /\ totalColumns' = columns
        /\ line' = renderMonitorLine(options, idle, columns, runtime)
    /\ pc' = "rendered"
    /\ UNCHANGED <<barVars, raw, options, error, runtime, host, watcherVars, elapsedVars, widthVars, loopVars>>

CliNext == Parse \/ Resolve \/ Render

SpecCli == CliInit /\ [][CliNext]_vars

(***************************************************************************)
(* The line over time: the same options, terminal and column count         *)
(* rendered again at the next later idle time of the samples, as the loop  *)
(* does from tick to tick while the logs are silent.                       *)
(***************************************************************************)
Later ==
    /\ pc = "rendered"
    /\ \E idle \in IdleSamples(options) :
        /\ idle > idleMs
        /\ \A other \in IdleSamples(options) : other > idleMs => idle <= other
        /\ idleMs' = idle
        /\ line' = renderMonitorLine(options, idle, totalColumns, runtime)
    /\ UNCHANGED <<barVars, raw, pc, options, error, runtime, host, totalColumns,
                   watcherVars, elapsedVars, widthVars, loopVars>>

DecayNext == Parse \/ Resolve \/ Render \/ Later

SpecDecay == CliInit /\ [][DecayNext]_vars


(***************************************************************************)
(* The environment the options are resolved in: TERM_PROGRAM for the       *)
(* terminal profile; the color-mode variables, the platform and the        *)
(* system appearance for the color mode.                                   *)
(***************************************************************************)
T_APPLE_TERMINAL == <<65, 80, 80, 76, 69, 95, 84, 69, 82, 77, 73, 78, 65, 76>>   \* "APPLE_TERMINAL"
T_Apple_Terminal_spaced == <<65, 112, 112, 108, 101, 95, 84, 101, 114, 109, 105, 110, 97, 108, 32>>   \* "Apple_Terminal "
T_ITERM_APP == <<73, 84, 69, 82, 77, 46, 65, 80, 80>>   \* "ITERM.APP"
T_iTerm_app_beta == <<105, 84, 101, 114, 109, 46, 97, 112, 112, 46, 98, 101, 116, 97>>   \* "iTerm.app.beta"
T_warp_preview == <<109, 121, 45, 87, 97, 114, 112, 45, 112, 114, 101, 118, 105, 101, 119>>   \* "my-Warp-preview"
T_LIGHT_spaced == <<32, 76, 73, 71, 72, 84, 32>>   \* " LIGHT "
T_Dark == <<68, 97, 114, 107>>   \* "Dark"
T_Light == <<76, 105, 103, 104, 116>>   \* "Light"
T_blue == <<98, 108, 117, 101>>   \* "blue"
T_Dark_newline == <<68, 97, 114, 107, 10>>   \* "Dark\n"
T_15_0 == <<49, 53, 59, 48>>   \* "15;0"
T_0_15 == <<48, 59, 49, 53>>   \* "0;15"
T_7_6 == <<55, 59, 54>>   \* "7;6"
T_12_7 == <<49, 50, 59, 55>>   \* "12;7"
T_15_default_0 == <<49, 53, 59, 100, 101, 102, 97, 117, 108, 116, 59, 48>>   \* "15;default;0"
T_0_default == <<48, 59, 100, 101, 102, 97, 117, 108, 116>>   \* "0;default"
T_15_empty == <<49, 53, 59>>   \* "15;"
T_0_15_spaced == <<32, 48, 59, 32, 49, 53, 32>>   \* " 0; 15 "
T_0_15x == <<48, 59, 49, 53, 120>>   \* "0;15x"
T_blank == <<32, 32>>   \* "  "

EnvTermPrograms ==
    TermPrograms \cup {<<>>, T_APPLE_TERMINAL, T_Apple_Terminal_spaced, T_ITERM_APP,
                       T_iTerm_app_beta, T_warp_preview}

\* What `defaults read -g AppleInterfaceStyle` does: exits non-zero (the
\* key is absent in light mode, execFileSync throws), or prints a text.
AppleInterfaceStyles ==
    {[throws |-> TRUE, text |-> <<>>]}
    \cup {[throws |-> FALSE, text |-> t] : t \in {T_Dark_newline, T_Dark, T_Light, <<>>}}

ColorHosts ==
    {[env |-> [TERM_PROGRAM |-> Undefined, OPENCLAW_MONITOR_COLOR_MODE |-> m,
               OPENCLAW_COLOR_MODE |-> c, COLORFGBG |-> f],
      platform |-> p[1],
      appleInterfaceStyle |-> p[2]] :
        m \in {Undefined, S_dark, S_light, T_LIGHT_spaced, T_blue},
        c \in {Undefined, S_dark, T_Light, S_auto},
        f \in {Undefined, <<>>, T_blank, T_15_0, T_0_15, T_7_6, T_12_7, T_15_default_0,
               T_0_default, T_15_empty, T_0_15_spaced, T_0_15x},
        p \in ({"darwin"} \X AppleInterfaceStyles)
                  \cup {<<"linux", [throws |-> TRUE, text |-> <<>>]>>}}

\* Options that choose the color mode, or leave it to the environment.
ColorRaws ==
    {[RawNone EXCEPT !.colorMode = m] : m \in {Undefined, S_auto, S_dark, S_light, T_Dark}}

\* Options that choose the profile, the glyph style and the symbol width.
TerminalRaws ==
    {[RawNone EXCEPT !.terminalProfile = p, !.lobsterStyle = l, !.emojiWidth = w,
                     !.colorMode = m] :
        p \in {Undefined, S_auto, S_apple_terminal, S_iterm2, S_warp, S_generic},
        l \in {Undefined, S_auto, S_text, S_image},
        w \in {Undefined, T_1, T_2},
        m \in {S_dark, S_light}}

EnvInit ==
    /\ \/ raw \in ColorRaws /\ host \in ColorHosts
       \/ /\ raw \in TerminalRaws
          /\ host \in {[HostNone EXCEPT !.env.TERM_PROGRAM = t] : t \in EnvTermPrograms}
    /\ pc = "start"
    /\ options = NoOptions
    /\ error = ""
    /\ runtime = NoRuntime
    /\ idleMs = 0
    /\ totalColumns = 0
    /\ line = <<>>
    /\ WatcherIdle /\ ElapsedIdle /\ WidthIdle /\ LoopIdle /\ BarIdle

EnvNext == Parse \/ Resolve

SpecEnv == EnvInit /\ [][EnvNext]_vars

(***************************************************************************)
(* displayWidth applied to one text.                                       *)
(***************************************************************************)
MaxTextLen == 2        \* longest text measured, in characters

\* The characters the texts are made of: controls, ASCII, Latin-1, the
\* joiner, variation selectors, combining marks (one of them inside a
\* wide range, one outside the first plane), pictographs, wide and
\* fullwidth characters with the neighbours of their ranges, and a
\* surrogate with no partner.
WidthCodePoints ==
    {\H0, \H9, \H1F, \H20, \H41, \H7E, \H7F, \H85, \H9F, \HA0, \HA9, \HE9,
     \H200D, \H301, \HFE00, \HFE0F, \HFE10, \H10FF, \H1100, \H115F, \H1160,
     \H302A, \H303F, \H3000, \H4E2D, \HFF01, \H2588, \H2B1B,
     \H1F99E, \H1F3FB, \HE0100, \H20000, \HD83E}

\* The UTF-16 code units of one character.
toCodeUnits(codePoint) ==
    IF codePoint < \H10000 THEN <<codePoint>>
    ELSE <<\HD800 + ((codePoint - \H10000) \div \H400),
           \HDC00 + ((codePoint - \H10000) % \H400)>>

RECURSIVE Flatten(_)
Flatten(parts) == IF parts = <<>> THEN <<>> ELSE Head(parts) \o Flatten(Tail(parts))

WidthInputs ==
    {Flatten([i \in 1 .. Len(chars) |-> toCodeUnits(chars[i])]) :
        chars \in UNION {[1 .. n -> WidthCodePoints] : n \in 0 .. MaxTextLen}}

WidthInit ==
    /\ units \in WidthInputs
    /\ measured = NoWidth
    /\ WatcherIdle /\ ElapsedIdle /\ CliIdle /\ LoopIdle /\ BarIdle

Measure ==
    /\ measured = NoWidth
    /\ measured' = displayWidth(codePoints(units))
    /\ UNCHANGED <<barVars, units, watcherVars, elapsedVars, cliVars, loopVars>>

WidthNext == Measure

SpecWidth == WidthInit /\ [][WidthNext]_vars

(***************************************************************************)
(* buildBarArea on its own: every glyph, fill, column count, decay side    *)
(* and symbol-width setting of the samples, the fill and the column count  *)
(* also outside the range the line renderer passes.                        *)
(***************************************************************************)
MaxBarColumns == 6     \* widest bar area asked for

\* Glyphs one, two and no columns wide, of one and of two characters.
T_e_acute == <<101, \H301>>     \* "e" followed by a combining acute accent
T_acute == <<\H301>>            \* a combining acute accent by itself
BarGlyphSamples ==
    {T_O, LOBSTER, WHITE_LARGE_SQUARE, WARP_CRITICAL_FALLBACK_SYMBOL, T_e_acute, T_acute}

BarInputs ==
    [symbol : BarGlyphSamples,
     filledColumns : (0 - 2)..(MaxBarColumns + 2),
     totalColumns : (0 - 1)..MaxBarColumns,
     decaySide : {S_left, S_right},
     symbolWidth : {Auto, 1, 2}]

BarInit ==
    /\ barIn \in BarInputs
    /\ bpc = "start"
    /\ barArea = <<>>
    /\ WatcherIdle /\ ElapsedIdle /\ CliIdle /\ WidthIdle /\ LoopIdle

Build ==
    /\ bpc = "start"
    /\ barArea' = buildBarArea(barIn.symbol, barIn.filledColumns, barIn.totalColumns,
                               barIn.decaySide, barIn.symbolWidth)
    /\ bpc' = "built"
    /\ UNCHANGED <<barIn, watcherVars, elapsedVars, cliVars, widthVars, loopVars>>

BarNext == Build

SpecBar == BarInit /\ [][BarNext]_vars

(***************************************************************************)
(* runMonitorCommand: the render loop.  JavaScript runs each piece of      *)
(* synchronous code to its end, so a signal handler or a stdin listener    *)
(* can only run while the loop awaits delay(); the steps are the code up   *)
(* to the loop (Begin), one pass of the loop body up to the await (Tick),  *)
(* what may happen during the await, and the finally block (Finally).      *)
(* stdout is recorded chunk by chunk, each chunk the text written.         *)
(***************************************************************************)
DEFAULT_TERMINAL_WIDTH == 120
ANSI_HIDE_CURSOR == <<27, 91, 63, 50, 53, 108>>   \* "\u001b[?25l"
ANSI_SHOW_CURSOR == <<27, 91, 63, 50, 53, 104>>   \* "\u001b[?25h"
ANSI_CLEAR_TO_START == <<27, 91, 51, 74, 27, 91, 72, 27, 91, 50, 74>>   \* "\u001b[3J\u001b[H\u001b[2J"
NEWLINE == <<10>>   \* "\n"

\* process.stdout.columns when it is not a positive number (undefined when
\* stdout is no terminal).
NoColumns == 0

resolveWidth(width, columns) ==
    IF width # Auto THEN width
    ELSE IF columns > 0 THEN columns
    ELSE DEFAULT_TERMINAL_WIDTH

\* What a promise was rejected with: whether it is an Error, and its name.
AbortError == [isError |-> TRUE, name |-> "AbortError"]

\* isAbortError taking every Error for a cancellation.
isAbortErrorAnyError(e) == e.isError

isAbortError(e) == e.isError /\ e.name = "AbortError"

\* The listeners createSignalController registers, by event; dispose
\* removes the same ones.
createSignalController(enableEventClear, stdinIsTTY) ==
    {"SIGINT", "SIGTERM"}
    \cup (IF enableEventClear THEN {"SIGWINCH"} ELSE {})
    \cup (IF enableEventClear /\ stdinIsTTY THEN {"data"} ELSE {})

\* consumeNeedsFullClear that leaves the flag raised.
consumeNeedsFullClearKeepsFlag(enableEventClear, flag) ==
    IF ~enableEventClear \/ ~flag
    THEN [value |-> FALSE, needsFullClear |-> flag]
    ELSE [value |-> TRUE, needsFullClear |-> flag]

\* consumeNeedsFullClear(): the value returned and the flag afterwards.
consumeNeedsFullClear(enableEventClear, flag) ==
    IF ~enableEventClear \/ ~flag
    THEN [value |-> FALSE, needsFullClear |-> flag]
    ELSE [value |-> TRUE, needsFullClear |-> FALSE]

\* dispose that removes the two termination listeners only.
disposeSignalsOnly(registered, enableEventClear, stdinIsTTY) ==
    registered \ {"SIGINT", "SIGTERM"}

\* dispose(): the listeners left registered.
dispose(registered, enableEventClear, stdinIsTTY) ==
    registered \ ({"SIGINT", "SIGTERM"}
                     \cup (IF enableEventClear THEN {"SIGWINCH"} ELSE {})
                     \cup (IF enableEventClear /\ stdinIsTTY THEN {"data"} ELSE {}))

\* The idle-start timestamp that is never moved.
lastActivityAfterScanNeverReset(grew, now, last) == last

\* if (watcher.scanForGrowth()) { lastActivityMs = now; }
lastActivityAfterScan(grew, now, last) == IF grew THEN now ELSE last

\* const visualWidth = ...
visualWidthOf(terminalConfig, columns, text) ==
    IF terminalConfig.lobsterStyle = S_image THEN columns ELSE displayWidth(text)

\* No padding at all.
padOfNothing(previous, visualWidth) == <<>>

\* const pad = " ".repeat(Math.max(0, previousWidth - visualWidth))
padOf(previous, visualWidth) == repeat(<<Space>>, Max(0, previous - visualWidth))

\* handleStdinData: does the chunk ask for a full clear
handleStdinData(text) == includes(text, <<10>>) \/ includes(text, <<13>>)

\* shouldHideCursor without regard to stdout being a terminal.
shouldHideCursorIgnoringTTY(opts, terminalConfig, stdoutIsTTY) ==
    opts.hideCursor /\ terminalConfig.supportsCursorHide

\* const shouldHideCursor = ...
shouldHideCursorOf(opts, terminalConfig, stdoutIsTTY) ==
    opts.hideCursor /\ terminalConfig.supportsCursorHide /\ stdoutIsTTY

MaxTicks == 2

T_12 == <<49, 50>>   \* "12"
T_a == <<97>>   \* "a"
T_Enter == <<13>>   \* "\r"

\* Options for the loop: cursor hiding and event clearing on or off, text
\* or image glyphs, the width given or taken from the terminal.
LoopRaws ==
    {[RawNone EXCEPT !.hideCursor = h, !.clearOnEvents = c, !.lobsterStyle = l] :
        h \in {"undefined", "false"}, c \in {"undefined", "false"},
        l \in {Undefined, S_image}}
    \cup {[RawNone EXCEPT !.width = T_12, !.hideCursor = h] : h \in {"undefined", "false"}}

\* Terminals: stdout and stdin a terminal or not, stdout's columns.
LoopTtys ==
    {[stdout |-> TRUE, stdin |-> i, columns |-> c] : i \in BOOLEAN, c \in {10, 14}}
    \cup {[stdout |-> FALSE, stdin |-> i, columns |-> NoColumns] : i \in BOOLEAN}

\* delay() resolves after refreshMs, or the process sleeps for a minute
\* and more.
Delays == {250, 61000}

\* What delay() can be rejected with, other than the cancellation.
OtherErrors ==
    {[isError |-> TRUE, name |-> "Error"],
     [isError |-> TRUE, name |-> "TypeError"],
     [isError |-> FALSE, name |-> "AbortError"]}

\* runMonitorCommand(options) is called.
LoopInit ==
    /\ raw \in LoopRaws
    /\ host \in {HostNone, [HostNone EXCEPT !.env.TERM_PROGRAM = T_iTerm_app]}
    /\ options = parseMonitorOptions(raw, detectSystemColorMode(host)).value
    /\ pc = "parsed"
    /\ error = ""
    /\ runtime = NoRuntime
    /\ idleMs = 0
    /\ totalColumns = 0
    /\ line = <<>>
    /\ lpc = "start"
    /\ tty \in LoopTtys
    /\ handlers = {}
    /\ aborted = FALSE
    /\ needsFullClear = FALSE
    /\ shouldHideCursor = FALSE
    /\ warned = FALSE
    /\ out = <<>>
    /\ clock = 0
    /\ lastActivityMs = 0
    /\ previousWidth = 0
    /\ ticks = 0
    /\ failure = "none"
    /\ waitError = NoError
    /\ result = "running"
    /\ WatcherIdle /\ ElapsedIdle /\ WidthIdle /\ BarIdle

\* From the call to the loop: the signal controller, the terminal
\* configuration, the warning, and the cursor hidden.  Either write can
\* throw: the one of the warning is before the try, so the promise is
\* rejected with nothing else done; the one of the cursor is inside it.
Begin ==
    /\ lpc = "start"
    /\ handlers' = createSignalController(options.clearOnEvents, tty.stdin)
    /\ runtime' = resolveRuntimeTerminalConfig(options, host.env)
    /\ pc' = "resolved"
    /\ shouldHideCursor' = shouldHideCursorOf(options, runtime', tty.stdout)
    /\ warned' = (options.lobsterStyle = S_image /\ runtime'.lobsterStyle # S_image)
    /\ \E warnThrows \in BOOLEAN, writeThrows \in BOOLEAN :
        /\ warnThrows => warned' /\ ~writeThrows
        /\ writeThrows => shouldHideCursor'
        /\ out' = IF shouldHideCursor' /\ ~writeThrows /\ ~warnThrows
                  THEN Append(out, ANSI_HIDE_CURSOR) ELSE out
        /\ failure' = IF warnThrows THEN "warn"
                      ELSE IF writeThrows THEN "hide" ELSE "none"
        /\ lpc' = IF warnThrows THEN "rejected"
                  ELSE IF writeThrows THEN "finally" ELSE "loop"
        /\ result' = IF warnThrows THEN "threw" ELSE result
    /\ UNCHANGED <<barVars, raw, options, error, host, idleMs, totalColumns, line, tty, aborted,
                   needsFullClear, clock, lastActivityMs, previousWidth, ticks,
                   waitError, watcherVars, elapsedVars, widthVars>>

\* One pass of the loop body, from the while test to the await.  The scan
\* answers growth or not, or throws; the full clear, the rendering and the
\* write of the line can throw; thrownAt says which of them does.
Tick ==
    /\ lpc = "loop"
    /\ IF aborted
       THEN /\ lpc' = "finally"
            /\ UNCHANGED <<idleMs, totalColumns, line, needsFullClear, out,
                           lastActivityMs, previousWidth, ticks, failure, sawGrowth>>
       ELSE \E thrownAt \in {"none", "scan", "clear", "render", "write"},
               growth \in BOOLEAN :
            LET now == clock
                scanned == thrownAt # "scan"
                activity == lastActivityAfterScan(scanned /\ growth, now, lastActivityMs)
                consumed == IF scanned
                            THEN consumeNeedsFullClear(options.clearOnEvents,
                                                       needsFullClear)
                            ELSE [value |-> FALSE, needsFullClear |-> needsFullClear]
                cleared == consumed.value /\ thrownAt # "clear"
                rendered == thrownAt \in {"none", "write"}
                widthBefore == IF cleared THEN 0 ELSE previousWidth
                columns == resolveWidth(options.width, tty.columns)
                text == renderMonitorLine(options, now - activity, columns, runtime)
                visualWidth == visualWidthOf(runtime, columns, text)
                pad == padOf(widthBefore, visualWidth)
            IN  /\ thrownAt = "scan" => ~growth
                /\ thrownAt = "clear" => consumed.value
                /\ sawGrowth' = IF scanned THEN growth ELSE sawGrowth
                /\ lastActivityMs' = activity
                /\ needsFullClear' = consumed.needsFullClear
                /\ idleMs' = IF rendered THEN now - activity ELSE idleMs
                /\ totalColumns' = IF rendered THEN columns ELSE totalColumns
                /\ line' = IF rendered THEN text ELSE line
                /\ out' = out \o (IF cleared THEN <<ANSI_CLEAR_TO_START>> ELSE <<>>)
                              \o (IF thrownAt = "none"
                                  THEN <<runtime.drawPrefix \o text \o pad>> ELSE <<>>)
                /\ previousWidth' = IF thrownAt = "none" THEN visualWidth ELSE widthBefore
                /\ ticks' = ticks + 1
                /\ failure' = thrownAt
                /\ lpc' = IF thrownAt = "none" THEN "wait" ELSE "finally"
    /\ UNCHANGED <<barVars, raw, pc, options, error, runtime, host, tty, handlers, aborted,
                   shouldHideCursor, warned, clock, waitError, result,
                   disk, states, flagged, scans, change, elapsedVars, widthVars>>

\* delay() running to its end although the controller is aborted.
WaitResolvesIgnoringSignal ==
    /\ lpc = "wait"
    /\ ticks < MaxTicks
    /\ \E dt \in Delays : clock' = clock + dt
    /\ lpc' = "loop"
    /\ UNCHANGED <<barVars, cliVars, tty, handlers, aborted, needsFullClear, shouldHideCursor,
                   warned, out, lastActivityMs, previousWidth, ticks, failure,
                   waitError, result, watcherVars, elapsedVars, widthVars>>

\* delay() resolves: the loop goes on.
WaitResolves ==
    /\ lpc = "wait"
    /\ ~aborted
    /\ ticks < MaxTicks
    /\ \E dt \in Delays : clock' = clock + dt
    /\ lpc' = "loop"
    /\ UNCHANGED <<barVars, cliVars, tty, handlers, aborted, needsFullClear, shouldHideCursor,
                   warned, out, lastActivityMs, previousWidth, ticks, failure,
                   waitError, result, watcherVars, elapsedVars, widthVars>>

\* SIGINT or SIGTERM while a listener is registered: stop() aborts the
\* controller.
Signal ==
    /\ lpc = "wait"
    /\ ~aborted
    /\ \E sig \in {"SIGINT", "SIGTERM"} : sig \in handlers
    /\ aborted' = TRUE
    /\ UNCHANGED <<barVars, cliVars, lpc, tty, handlers, needsFullClear, shouldHideCursor,
                   warned, out, clock, lastActivityMs, previousWidth, ticks, failure,
                   waitError, result, watcherVars, elapsedVars, widthVars>>

\* The terminal is resized: stdout has other columns, and SIGWINCH runs
\* markNeedsClear when registered.
Resize ==
    /\ lpc = "wait"
    /\ tty.stdout
    /\ \E columns \in {10, 14} \ {tty.columns} : tty' = [tty EXCEPT !.columns = columns]
    /\ needsFullClear' = IF "SIGWINCH" \in handlers THEN TRUE ELSE needsFullClear
    /\ UNCHANGED <<barVars, cliVars, lpc, handlers, aborted, shouldHideCursor, warned, out,
                   clock, lastActivityMs, previousWidth, ticks, failure, waitError,
                   result, watcherVars, elapsedVars, widthVars>>

\* A key is pressed: the stdin listener, when registered, gets the chunk.
StdinData ==
    /\ lpc = "wait"
    /\ "data" \in handlers
    /\ \E chunk \in {T_a, T_Enter} :
        needsFullClear' = (needsFullClear \/ handleStdinData(chunk))
    /\ needsFullClear' # needsFullClear
    /\ UNCHANGED <<barVars, cliVars, lpc, tty, handlers, aborted, shouldHideCursor, warned, out,
                   clock, lastActivityMs, previousWidth, ticks, failure, waitError,
                   result, watcherVars, elapsedVars, widthVars>>

\* delay() called without the signal: it never rejects with the AbortError.
WaitRejectsWithoutSignal ==
    /\ lpc = "wait"
    /\ ~aborted
    /\ \E e \in OtherErrors :
        /\ waitError' = e
        /\ failure' = IF isAbortError(e) THEN "none" ELSE "wait"
    /\ lpc' = "finally"
    /\ UNCHANGED <<barVars, cliVars, tty, handlers, aborted, needsFullClear, shouldHideCursor,
                   warned, out, clock, lastActivityMs, previousWidth, ticks, result,
                   watcherVars, elapsedVars, widthVars>>

\* delay() rejects: with the AbortError once the controller is aborted, or
\* with another error.  isAbortError decides between break and throw.
WaitRejects ==
    /\ lpc = "wait"
    /\ \E e \in (IF aborted THEN {AbortError} ELSE OtherErrors) :
        /\ waitError' = e
        /\ failure' = IF isAbortError(e) THEN "none" ELSE "wait"
    /\ lpc' = "finally"
    /\ UNCHANGED <<barVars, cliVars, tty, handlers, aborted, needsFullClear, shouldHideCursor,
                   warned, out, clock, lastActivityMs, previousWidth, ticks, result,
                   watcherVars, elapsedVars, widthVars>>

\* The finally block writing nothing when an error is on its way out.
FinallyOnlyOnReturn ==
    /\ lpc = "finally"
    /\ handlers' = dispose(handlers, options.clearOnEvents, tty.stdin)
    /\ out' = IF failure # "none" THEN out
              ELSE out \o (IF shouldHideCursor THEN <<ANSI_SHOW_CURSOR>> ELSE <<>>)
                       \o <<NEWLINE>>
    /\ result' = IF failure = "none" THEN "returned" ELSE "threw"
    /\ lpc' = "done"
    /\ UNCHANGED <<barVars, cliVars, tty, aborted, needsFullClear, shouldHideCursor, warned,
                   clock, lastActivityMs, previousWidth, ticks, failure, waitError,
                   watcherVars, elapsedVars, widthVars>>

\* The finally block: dispose, the cursor shown again, the newline; then
\* the promise settles.
Finally ==
    /\ lpc = "finally"
    /\ handlers' = dispose(handlers, options.clearOnEvents, tty.stdin)
    /\ out' = out \o (IF shouldHideCursor THEN <<ANSI_SHOW_CURSOR>> ELSE <<>>)
                  \o <<NEWLINE>>
    /\ result' = IF failure = "none" THEN "returned" ELSE "threw"
    /\ lpc' = "done"
    /\ UNCHANGED <<barVars, cliVars, tty, aborted, needsFullClear, shouldHideCursor, warned,
                   clock, lastActivityMs, previousWidth, ticks, failure, waitError,
                   watcherVars, elapsedVars, widthVars>>

LoopNext ==
    Begin \/ Tick \/ WaitResolves \/ Signal \/ Resize \/ StdinData \/ WaitRejects
        \/ Finally

SpecLoop == LoopInit /\ [][LoopNext]_vars

\* The finally block follows the try without an await in between: once
\* the loop is left, it runs.
SpecLoopFair == SpecLoop /\ WF_vars(Finally)

\* Besides, delay() rejects once its signal is aborted: an aborted wait is
\* left.
SpecLoopLive == SpecLoop /\ WF_vars(Finally) /\ WF_vars(aborted /\ WaitRejects)

(***************************************************************************)
(* Properties of the watcher.  Every step of SpecWatcher that changes the  *)
(* state is one scan: unprimed variables are the watcher before the scan,  *)
(* disk' and change' the files the scan finds and what happened to them    *)
(* since the scan before, states', flagged' and sawGrowth' its outcome.    *)
(***************************************************************************)
Tracked(p) == p \in DOMAIN states
Quiet(k) == k \notin {"append", "truncw", "rotw"}

\* C1: a matched, stat-able path that has no FileState when a scan reaches
\* it is recorded with its current device, inode and size and sets no
\* growth flag in that scan; the first scan of a watcher returns false.
C1_NewPathIsBaseline ==
    /\ [][\A p \in Paths :
            (disk'[p].kind = "ok" /\ ~Tracked(p)) =>
                /\ p \in DOMAIN states'
                /\ states'[p] = [dev |-> disk'[p].dev, ino |-> disk'[p].ino,
                                 size |-> disk'[p].size]
                /\ p \notin flagged']_vars
    /\ [](scans = 1 => sawGrowth = FALSE)

\* A path first seen by a second or later scan, with bytes in it, and no
\* growth reported.
C1_Witness ==
    /\ scans >= 2
    /\ sawGrowth = FALSE
    /\ \E p \in Paths :
        change[p] = "new" /\ p \in DOMAIN states /\ states[p].size > 0

\* C2: a tracked file that was only appended to since the last scan makes
\* the next scan return true; a scan before which nothing changed returns
\* false, so one growth is reported once.
C2_AppendReportedOnce ==
    /\ [][(\E p \in Paths : Tracked(p) /\ change'[p] = "append")
            => sawGrowth' = TRUE]_vars
    /\ [][(scans >= 1 /\ \A p \in Paths : change'[p] = "none")
            => sawGrowth' = FALSE]_vars

C2_Witness ==
    /\ sawGrowth = TRUE
    /\ \E p \in Paths :
        /\ change[p] = "append" /\ p \in flagged
        /\ \A q \in Paths \ {p} : change[q] = "none"

\* C3: a tracked file truncated to 0, with no bytes written to any matched
\* file, gives a scan that returns false and stores size 0 for the path; an
\* append after that scan makes the following scan return true.
C3_TruncateThenAppend ==
    /\ [][\A p \in Paths :
            (/\ Tracked(p) /\ change'[p] = "trunc"
             /\ \A q \in Paths \ {p} : Quiet(change'[q])) =>
                /\ sawGrowth' = FALSE
                /\ p \in DOMAIN states' /\ states'[p].size = 0]_vars
    /\ [][\A p \in Paths :
            (Tracked(p) /\ change[p] = "trunc" /\ change'[p] = "append")
                => sawGrowth' = TRUE]_vars

C3_Witness ==
    /\ scans >= 2
    /\ sawGrowth = FALSE
    /\ \E p \in Paths :
        /\ change[p] = "trunc" /\ p \in DOMAIN states /\ states[p].size = 0
        /\ \A q \in Paths \ {p} : change[q] = "none"

\* C4: a tracked path replaced by another file (device or inode differs)
\* into which bytes were written makes the next scan return true.
C4_RotationWithWritesIsGrowth ==
    [][(\E p \in Paths :
            /\ Tracked(p) /\ change'[p] = "rotw"
            /\ (disk'[p].dev # states[p].dev \/ disk'[p].ino # states[p].ino))
        => sawGrowth' = TRUE]_vars

C4_Witness ==
    /\ sawGrowth = TRUE
    /\ \E p \in Paths :
        /\ change[p] = "rotw" /\ p \in flagged
        /\ \A q \in Paths \ {p} : change[q] = "none"

\* C5 as stated: a tracked file truncated or rotated and then written to
\* makes the next scan return true, whatever its resulting size.
C5_Original ==
    [][(\E p \in Paths : Tracked(p) /\ change'[p] \in {"truncw", "rotw"})
        => sawGrowth' = TRUE]_vars

\* C5 as amended: the scan returns true when the file was rotated and
\* written to, or truncated and written to with a resulting size other than
\* the stored one; truncated and rewritten to exactly the stored size the
\* path sets no growth flag.
C5_TruncationOrRotationNotSilent ==
    [][\A p \in Paths :
        Tracked(p) =>
            /\ (change'[p] = "rotw" => p \in flagged')
            /\ (change'[p] = "truncw" =>
                    (p \in flagged' <=> disk'[p].size # states[p].size))
            /\ (p \in flagged' => sawGrowth' = TRUE)]_vars

\* A file truncated and rewritten to a smaller, non-zero size: reported.
C5_Witness ==
    /\ sawGrowth = TRUE
    /\ \E p \in Paths :
        /\ change[p] = "truncw" /\ p \in flagged
        /\ states[p].size < MaxSize
        /\ \A q \in Paths \ {p} : change[q] = "none"

(***************************************************************************)
(* Properties of formatElapsed.                                            *)
(***************************************************************************)
Digit(n) == Str0 + n
TwoDigits(n) == <<Digit(n \div 10), Digit(n % 10)>>

\* The number a digit string denotes, -1 if a character is no digit.
RECURSIVE DecimalValue(_)
DecimalValue(text) ==
    IF text = <<>> THEN 0
    ELSE LET last == text[Len(text)]
             rest == DecimalValue(SubSeq(text, 1, Len(text) - 1))
         IN  IF last < Str0 \/ last > Str0 + 9 \/ rest < 0 THEN -1
             ELSE 10 * rest + (last - Str0)

\* C9: with total = max(0, floor(s)), formatElapsed(s) is mm:ss below one
\* hour and hh:mm:ss from 3600 on, hh = total div 3600, mm = (total mod
\* 3600) div 60, ss = total mod 60, each field padded with zeros to at
\* least two digits; 0, 61, 3599, 3600 and 3661 give the documented texts.
C9_FormatElapsed ==
    elapsed # <<>> =>
        LET total == IF secIn < 0 THEN 0 ELSE (secIn - (secIn % 1000)) \div 1000
            hh == total \div 3600
            mm == (total - 3600 * hh) \div 60
            ss == total - 3600 * hh - 60 * mm
            tail == TwoDigits(mm) \o <<Colon>> \o TwoDigits(ss)
            n == Len(elapsed)
        IN  /\ total < 3600 => elapsed = tail
            /\ total >= 3600 =>
                /\ n >= 8
                /\ SubSeq(elapsed, n - 5, n) = <<Colon>> \o tail
                /\ DecimalValue(SubSeq(elapsed, 1, n - 6)) = hh
                /\ (n > 8 => elapsed[1] # Str0)
            /\ secIn = 0 => elapsed = <<48, 48, 58, 48, 48>>
            /\ secIn = 61000 => elapsed = <<48, 49, 58, 48, 49>>
            /\ secIn = 3599000 => elapsed = <<53, 57, 58, 53, 57>>
            /\ secIn = 3600000 => elapsed = <<48, 49, 58, 48, 48, 58, 48, 48>>
            /\ secIn = 3661000 => elapsed = <<48, 49, 58, 48, 49, 58, 48, 49>>

\* The first argument that needs the hours field, with a fraction.
C9_Witness == secIn = 3600999 /\ elapsed = <<48, 49, 58, 48, 48, 58, 48, 48>>

(***************************************************************************)
(* Properties of the option parser and of the rendered line, read in the   *)
(* states of SpecCli.                                                      *)
(***************************************************************************)
Parsed == pc \in {"parsed", "resolved", "rendered"}
Rendered == pc = "rendered"

\* The number a threshold option stands for, as the parser reads it.
RawSeconds(text, fallback) == parseFloat(trim(OrElse(text, fallback)))

\* C10: whenever the critical threshold given is not greater than the warn
\* threshold, parseMonitorOptions throws and no options exist; so all
\* options the resolver or the renderer get have
\* criticalSeconds > warnSeconds > 0.
C10_ThresholdsOrdered ==
    /\ pc \in {"parsed", "failed", "resolved", "rendered"} =>
        LET warn == RawSeconds(raw.warnSeconds, S_60)
            critical == RawSeconds(raw.criticalSeconds, S_120)
        IN  (~warn.nan /\ ~critical.nan /\ critical.value <= warn.value) =>
                pc = "failed" /\ error # "" /\ options = NoOptions
    /\ Parsed => /\ options.criticalSeconds > options.warnSeconds
                 /\ options.warnSeconds > 0

\* Equal thresholds were given and the parser threw for them.
C10_Witness ==
    /\ pc = "failed"
    /\ raw.warnSeconds = T_10 /\ raw.criticalSeconds = T_10
    /\ error = "--critical-seconds must be greater than --warn-seconds"
    /\ options = NoOptions

\* What the line is made of.
IdleSeconds == Max(0, idleMs)
LinePrefix == <<LBracket>> \o formatElapsed(IdleSeconds) \o <<RBracket, Space>>
AvailableColumns == Max(0, totalColumns - displayWidth(LinePrefix))
BarOf(text) == SubSeq(text, Len(LinePrefix) + 1, Len(text))
StartsWithPrefix(text) ==
    Len(text) >= Len(LinePrefix) /\ SubSeq(text, 1, Len(LinePrefix)) = LinePrefix

RECURSIVE LeadingSpaces(_)
LeadingSpaces(text) ==
    IF text # <<>> /\ Head(text) = Space THEN 1 + LeadingSpaces(Tail(text)) ELSE 0

RECURSIVE TrailingSpaces(_)
TrailingSpaces(text) ==
    IF text # <<>> /\ text[Len(text)] = Space
    THEN 1 + TrailingSpaces(SubSeq(text, 1, Len(text) - 1)) ELSE 0

\* text is glyph written some number of times (possibly none).
IsRepeatOf(text, glyph) ==
    /\ Len(text) % Len(glyph) = 0
    /\ text = repeat(glyph, Len(text) \div Len(glyph))

GlyphCount(text, glyph) == (Len(text) - LeadingSpaces(text)) \div Len(glyph)

\* spaces, then glyphs up to the right edge
FlushRight(bar, glyph) ==
    IsRepeatOf(SubSeq(bar, LeadingSpaces(bar) + 1, Len(bar)), glyph)
\* glyphs from the left edge, then spaces
FlushLeft(bar, glyph) ==
    IsRepeatOf(SubSeq(bar, 1, Len(bar) - TrailingSpaces(bar)), glyph)

IsCritical == IdleSeconds >= options.criticalSeconds
IsWarn == options.warnSeconds <= IdleSeconds /\ IdleSeconds < options.criticalSeconds
IsOk == IdleSeconds < options.warnSeconds

\* The glyph in use for a state: the text glyph of the options, or what the
\* runtime configuration puts in its place.
GlyphOf(state) == pickStateSymbol(options, runtime, state)

\* The width the renderer takes a glyph to have.
SymbolWidthSetting == IF runtime.defined THEN runtime.symbolWidth ELSE options.emojiWidth
\* The glyph is one column wide and is counted as one column.
OneColumn(glyph) ==
    displayWidth(glyph) = 1 /\ resolveSymbolWidth(glyph, SymbolWidthSetting) = 1

\* C6: every idle duration is in exactly one of the three states, critical
\* iff idleSeconds >= criticalSeconds, warn iff warnSeconds <= idleSeconds <
\* criticalSeconds, ok iff idleSeconds < warnSeconds, and after the prefix
\* the line holds nothing but spaces and the glyph of that state.
C6_StateClassification ==
    Rendered =>
        /\ StartsWithPrefix(line)
        /\ \/ IsCritical /\ ~IsWarn /\ ~IsOk
           \/ ~IsCritical /\ IsWarn /\ ~IsOk
           \/ ~IsCritical /\ ~IsWarn /\ IsOk
        /\ \A state \in {"ok", "warn", "critical"} :
            (CASE state = "critical" -> IsCritical
               [] state = "warn" -> IsWarn
               [] OTHER -> IsOk)
                => \/ FlushRight(BarOf(line), GlyphOf(state))
                   \/ FlushLeft(BarOf(line), GlyphOf(state))

\* An idle time exactly at the warn threshold was rendered with warn
\* glyphs that are not the ok glyph.
C6_Witness ==
    /\ Rendered
    /\ idleMs = options.warnSeconds
    /\ GlyphOf("warn") # GlyphOf("ok")
    /\ GlyphCount(BarOf(line), GlyphOf("warn")) > 0
    /\ FlushRight(BarOf(line), GlyphOf("warn"))

OtherSide == IF options.decaySide = S_left THEN S_right ELSE S_left
\* The line for the same inputs and the other decay side.
LineOtherSide ==
    renderMonitorLine([options EXCEPT !.decaySide = OtherSide],
                      idleMs, totalColumns, runtime)

C8_Original ==
    (Rendered /\ ~IsCritical) =>
        LET glyph == GlyphOf(IF IsWarn THEN "warn" ELSE "ok")
            bar == BarOf(line)
            other == BarOf(LineOtherSide)
        IN  /\ StartsWithPrefix(line)
            /\ options.decaySide = S_left =>
                   /\ FlushRight(bar, glyph) /\ FlushLeft(other, glyph)
                   /\ LeadingSpaces(bar) = TrailingSpaces(other)
            /\ options.decaySide = S_right =>
                   /\ FlushLeft(bar, glyph) /\ FlushRight(other, glyph)
                   /\ TrailingSpaces(bar) = LeadingSpaces(other)
            /\ Len(bar) = Len(other)
            /\ displayWidth(glyph) = 1 =>
                   displayWidth(bar) = totalColumns - displayWidth(LinePrefix)

\* C8: in the ok and warn states the bar is spaces then glyphs for decay
\* side left and glyphs then spaces for decay side right, both sides give
\* the same numbers of glyphs and of spaces, and with a glyph that is one
\* column wide and counted as one column the bar is
\* max(0, totalColumns - prefix width) columns wide.
C8_DecaySidePlacement ==
    (Rendered /\ ~IsCritical) =>
        LET glyph == GlyphOf(IF IsWarn THEN "warn" ELSE "ok")
            bar == BarOf(line)
            other == BarOf(LineOtherSide)
        IN  /\ StartsWithPrefix(line)
            /\ options.decaySide = S_left =>
                   /\ FlushRight(bar, glyph) /\ FlushLeft(other, glyph)
                   /\ LeadingSpaces(bar) = TrailingSpaces(other)
            /\ options.decaySide = S_right =>
                   /\ FlushLeft(bar, glyph) /\ FlushRight(other, glyph)
                   /\ TrailingSpaces(bar) = LeadingSpaces(other)
            /\ Len(bar) = Len(other)
            /\ OneColumn(glyph) =>
                   displayWidth(bar) = Max(0, totalColumns - displayWidth(LinePrefix))

\* Right decay at the warn threshold with glyph W in 14 columns: the
\* glyphs first, then the padding.
C8_Witness ==
    /\ Rendered
    /\ options.decaySide = S_right
    /\ OneColumn(GlyphOf("warn"))
    /\ line = <<91, 48, 48, 58, 48, 53, 93, 32, 87, 87, 87, 32, 32, 32>>
    /\ BarOf(LineOtherSide) = <<32, 32, 32, 87, 87, 87>>

(***************************************************************************)
(* Validation of the other options.                                        *)
(***************************************************************************)
\* A text that is a positive integer: digits only, not all of them zero.
IsPositiveIntegerText(text) ==
    /\ text # <<>>
    /\ \A i \in 1 .. Len(text) : IsDigit(text[i])
    /\ DigitsValue(text) > 0

\* An option as the parsers compare it: trimmed, in lower case.
Normalized(text) == toLowerCase(trim(text))

\* The options that are malformed, by name.
Named(name, malformed) == IF malformed THEN {name} ELSE {}
MalformedOptions ==
    Named("okEmoji", raw.okEmoji = <<>>)
    \cup Named("warnEmoji", raw.warnEmoji = <<>>)
    \cup Named("criticalEmoji", raw.criticalEmoji = <<>>)
    \cup Named("width", /\ raw.width # Undefined
                        /\ Normalized(raw.width) # S_auto
                        /\ ~IsPositiveIntegerText(Normalized(raw.width)))
    \cup Named("refreshMs", /\ raw.refreshMs # Undefined
                            /\ ~IsPositiveIntegerText(trim(raw.refreshMs)))
    \cup Named("decaySide", raw.decaySide \notin {Undefined, S_left, S_right})
    \cup Named("terminalProfile",
               /\ raw.terminalProfile # Undefined
               /\ Normalized(raw.terminalProfile) \notin TERMINAL_PROFILES)
    \cup Named("emojiWidth",
               /\ raw.emojiWidth # Undefined
               /\ Normalized(raw.emojiWidth) \notin {S_auto, <<Str0 + 1>>, <<Str0 + 2>>})
    \cup Named("lobsterStyle",
               /\ raw.lobsterStyle # Undefined
               /\ Normalized(raw.lobsterStyle) \notin LOBSTER_STYLES)
    \cup Named("colorMode",
               /\ raw.colorMode # Undefined
               /\ Normalized(raw.colorMode) \notin COLOR_MODES)

\* C11: whenever a glyph is empty, the width is neither 'auto' nor a
\* positive integer, the refresh interval is not a positive integer, or the
\* decay side, terminal profile, emoji width, glyph style or color mode is
\* outside its allowed set, parseMonitorOptions throws and returns no
\* options: no malformed value is replaced by another one.
C11_Original ==
    (pc \in {"parsed", "failed", "resolved", "rendered"} /\ MalformedOptions # {}) =>
        pc = "failed" /\ error # "" /\ options = NoOptions

(***************************************************************************)
(* Properties of displayWidth, read in the states of SpecWidth.            *)
(***************************************************************************)
\* The width the contract gives one code point.  The controls are U+0000
\* to U+001F and U+007F to U+009F.
ZeroWidth(codePoint) ==
    \/ codePoint = 0
    \/ codePoint <= \H1F
    \/ codePoint >= \H7F /\ codePoint <= \H9F
    \/ codePoint = \H200D
    \/ codePoint >= \HFE00 /\ codePoint <= \HFE0F
    \/ COMBINING_MARK_RE(codePoint)
DoubleWidth(codePoint) ==
    EXTENDED_PICTOGRAPHIC_RE(codePoint) \/ isFullwidthCodePoint(codePoint)
ContractWidth(codePoint) ==
    IF ZeroWidth(codePoint) THEN 0 ELSE IF DoubleWidth(codePoint) THEN 2 ELSE 1

\* The sum over the characters of a text in code units, a surrogate pair
\* being one character.
RECURSIVE ContractTextWidth(_)
ContractTextWidth(codeUnits) ==
    IF codeUnits = <<>> THEN 0
    ELSE IF /\ Len(codeUnits) >= 2
            /\ codeUnits[1] \in \HD800 .. \HDBFF
            /\ codeUnits[2] \in \HDC00 .. \HDFFF
    THEN ContractWidth(\H10000 + (codeUnits[1] - \HD800) * \H400
                                + (codeUnits[2] - \HDC00))
             + ContractTextWidth(SubSeq(codeUnits, 3, Len(codeUnits)))
    ELSE ContractWidth(codeUnits[1]) + ContractTextWidth(Tail(codeUnits))

\* C15: displayWidth(text) is not negative and is the sum over the code
\* points of text, a surrogate pair counted once, of 0 for NUL, controls,
\* the zero-width joiner, variation selectors and combining marks, else 2
\* for pictographic and wide or fullwidth code points, else 1.
C15_DisplayWidth ==
    measured # NoWidth =>
        /\ measured >= 0
        /\ measured = ContractTextWidth(units)

\* The ideographic tone mark U+302A, a combining mark inside a wide range,
\* after the lobster, which takes two code units: width 2 + 0.
C15_Witness ==
    /\ units = <<\HD83E, \HDD9E, \H302A>>
    /\ measured = 2

(***************************************************************************)
(* Properties of the resolver, stated over the options as given (raw),     *)
(* the environment (host) and the configuration resolved (runtime).        *)
(***************************************************************************)
Resolved == pc = "resolved"

\* A text without regard to the case of its letters.
Folded(text) ==
    [i \in 1 .. Len(text) |->
        IF text[i] \in 65 .. 90 THEN text[i] + 32 ELSE text[i]]

Contains(text, part) ==
    \E i \in 0 .. Len(text) - Len(part) :
        \A j \in 1 .. Len(part) : text[i + j] = part[j]

\* The terminal profile asked for: the option, trimmed and folded; auto
\* when there is none.
ProfileChoice ==
    IF raw.terminalProfile = Undefined THEN S_auto ELSE Folded(trim(raw.terminalProfile))

\* TERM_PROGRAM, folded; the empty text when it is not set.
TermProgram ==
    IF host.env.TERM_PROGRAM = Undefined THEN <<>> ELSE Folded(host.env.TERM_PROGRAM)

ProfileOfTermProgram ==
    CASE TermProgram = Folded(T_Apple_Terminal) -> S_apple_terminal
      [] TermProgram = Folded(T_iTerm_app) -> S_iterm2
      [] TermProgram # Folded(T_Apple_Terminal) /\ TermProgram # Folded(T_iTerm_app)
            /\ (TermProgram = Folded(T_WarpTerminal) \/ Contains(TermProgram, S_warp))
            -> S_warp
      [] OTHER -> S_generic

\* C16: an explicit terminal profile is the resolved profile whatever the
\* environment holds; with auto the profile comes from TERM_PROGRAM without
\* regard to case: Apple_Terminal gives apple-terminal, iTerm.app gives
\* iterm2, WarpTerminal or a value containing "warp" gives warp, and any
\* other value, or none, gives generic.
C16_ProfileResolution ==
    Resolved =>
        runtime.profile =
            IF ProfileChoice # S_auto THEN ProfileChoice ELSE ProfileOfTermProgram

\* Auto-detection from a TERM_PROGRAM spelled in capitals.
C16_Witness ==
    /\ Resolved
    /\ raw.terminalProfile = Undefined
    /\ host.env.TERM_PROGRAM = T_ITERM_APP
    /\ runtime.profile = S_iterm2

\* The glyph style asked for: the option, trimmed and folded; auto when
\* there is none.
StyleChoice ==
    IF raw.lobsterStyle = Undefined THEN S_auto ELSE Folded(trim(raw.lobsterStyle))

\* The configuration carries an image glyph for each of the three states.
HasImageSymbols ==
    /\ runtime.imageSymbols # NoImageSymbols
    /\ \A state \in {"ok", "warn", "critical"} : runtime.imageSymbols[state] # <<>>

\* C17: in every resolved configuration the glyph style is image only on
\* the iterm2 profile; an image request on another profile is resolved, to
\* text, with no error; a text request gives text; and the image glyph set
\* is present exactly when the style is image.
C17_ImageOnlyOnIterm2 ==
    Resolved =>
        /\ runtime.lobsterStyle \in {S_text, S_image}
        /\ runtime.lobsterStyle = S_image => runtime.profile = S_iterm2
        /\ StyleChoice = S_image /\ runtime.profile # S_iterm2 =>
                error = "" /\ runtime.lobsterStyle = S_text
        /\ StyleChoice = S_text => runtime.lobsterStyle = S_text
        /\ HasImageSymbols <=> runtime.lobsterStyle = S_image
        /\ ~HasImageSymbols <=> runtime.imageSymbols = NoImageSymbols

\* An image request downgraded on Warp.
C17_Witness ==
    /\ Resolved
    /\ raw.lobsterStyle = S_image
    /\ runtime.profile = S_warp
    /\ runtime.lobsterStyle = S_text
    /\ runtime.imageSymbols = NoImageSymbols

\* An image request honored on iTerm2.
C17_WitnessImage ==
    /\ Resolved
    /\ raw.lobsterStyle = S_image
    /\ runtime.profile = S_iterm2
    /\ runtime.lobsterStyle = S_image
    /\ HasImageSymbols

\* C18: with glyph style auto and the profile auto-detected as iterm2 from
\* TERM_PROGRAM=iTerm.app (symbol width left to the resolver), the resolved
\* configuration has glyph style image, an image glyph for each of the ok,
\* warn and critical states, and symbol width 2.
C18_AutoImageOnIterm2 ==
    /\ Resolved
    /\ StyleChoice = S_auto
    /\ ProfileChoice = S_auto
    /\ host.env.TERM_PROGRAM = T_iTerm_app
    /\ raw.emojiWidth = Undefined
    => /\ runtime.profile = S_iterm2
       /\ runtime.lobsterStyle = S_image
       /\ HasImageSymbols
       /\ runtime.symbolWidth = 2

\* The color mode asked for: the option, trimmed and folded; auto when
\* there is none.
ColorChoice ==
    IF raw.colorMode = Undefined THEN S_auto ELSE Folded(trim(raw.colorMode))

\* An environment variable that names a color mode (surrounding blanks
\* and case disregarded), and the mode it names.
NamesColorMode(value) ==
    value # Undefined /\ Folded(trim(value)) \in {S_dark, S_light}

\* The fields of a text separated by semicolons end with the last field:
\* what follows the last semicolon, or the whole text.
LastFieldStart(text) ==
    IF \E i \in 1 .. Len(text) : text[i] = 59
    THEN 1 + CHOOSE i \in 1 .. Len(text) :
                 text[i] = 59 /\ \A j \in (i + 1) .. Len(text) : text[j] # 59
    ELSE 1

ColorFgBgField ==
    IF host.env.COLORFGBG = Undefined THEN <<>>
    ELSE LET text == trim(host.env.COLORFGBG)
         IN  trimStart(SubSeq(text, LastFieldStart(text), Len(text)))

\* The field is a number when it starts with decimal digits (after an
\* optional sign); the number is the one these digits spell.
FieldIsNumber ==
    LeadingDigits(Unsigned(ColorFgBgField)) # <<>>

FieldNumber ==
    Sign(ColorFgBgField) * DigitsValue(LeadingDigits(Unsigned(ColorFgBgField)))

ReportsDark ==
    /\ ~host.appleInterfaceStyle.throws
    /\ Contains(Folded(host.appleInterfaceStyle.text), S_dark)

ExpectedColorMode ==
    IF ColorChoice \in {S_dark, S_light} THEN ColorChoice
    ELSE IF NamesColorMode(host.env.OPENCLAW_MONITOR_COLOR_MODE)
    THEN Folded(trim(host.env.OPENCLAW_MONITOR_COLOR_MODE))
    ELSE IF NamesColorMode(host.env.OPENCLAW_COLOR_MODE)
    THEN Folded(trim(host.env.OPENCLAW_COLOR_MODE))
    ELSE IF host.platform = "darwin"
    THEN (IF ReportsDark THEN S_dark ELSE S_light)
    ELSE IF FieldIsNumber
    THEN (IF FieldNumber <= 6 THEN S_dark ELSE S_light)
    ELSE S_dark

\* C19: the effective color mode follows a fixed precedence.  An option
\* dark or light wins.  With auto, OPENCLAW_MONITOR_COLOR_MODE decides when
\* it is dark or light, else OPENCLAW_COLOR_MODE when it is dark or light;
\* else on macOS the appearance query decides: dark iff it reports dark,
\* light otherwise and when the query fails; else the last field of
\* COLORFGBG, when a number: dark up to 6, light above; else dark.
C19_ColorModePrecedence ==
    /\ pc \in {"parsed", "resolved"} =>
            /\ options.resolvedColorMode = ExpectedColorMode
            /\ options.colorMode = ColorChoice
    /\ Resolved => runtime.colorMode = ExpectedColorMode

\* macOS, both override variables set but only the general one naming a
\* mode, the appearance query failing: the override decides, not the query.
C19_Witness ==
    /\ Resolved
    /\ raw.colorMode = Undefined
    /\ host.env.OPENCLAW_MONITOR_COLOR_MODE = T_blue
    /\ host.env.OPENCLAW_COLOR_MODE = S_dark
    /\ host.platform = "darwin"
    /\ host.appleInterfaceStyle.throws
    /\ runtime.colorMode = S_dark

\* The appearance query fails and nothing overrides it.
C19_WitnessQueryFails ==
    /\ Resolved
    /\ ColorChoice = S_auto
    /\ ~NamesColorMode(host.env.OPENCLAW_MONITOR_COLOR_MODE)
    /\ ~NamesColorMode(host.env.OPENCLAW_COLOR_MODE)
    /\ host.platform = "darwin"
    /\ host.appleInterfaceStyle.throws
    /\ host.env.COLORFGBG = T_15_0
    /\ runtime.colorMode = S_light

\* COLORFGBG decides, by a last field above 6.
C19_WitnessColorFgBg ==
    /\ Resolved
    /\ ColorChoice = S_auto
    /\ host.platform = "linux"
    /\ host.env.COLORFGBG = T_0_15
    /\ host.env.OPENCLAW_MONITOR_COLOR_MODE = Undefined
    /\ host.env.OPENCLAW_COLOR_MODE = S_auto
    /\ runtime.colorMode = S_light

\* The bar without the spaces at its two ends.
BarGlyphs ==
    LET bar == BarOf(line)
    IN  IF LeadingSpaces(bar) = Len(bar) THEN <<>>
        ELSE SubSeq(bar, LeadingSpaces(bar) + 1, Len(bar) - TrailingSpaces(bar))

\* The text glyph the options hold for the state of the line.
OptionGlyph ==
    IF IsCritical THEN options.criticalEmoji
    ELSE IF IsWarn THEN options.warnEmoji
    ELSE options.okEmoji

\* The critical glyph of the options is the hollow square, not a glyph of
\* the caller's own.
HollowSquareActive == options.criticalEmoji = WHITE_LARGE_SQUARE

\* C20: with text glyphs, a critical line on the warp profile is drawn with
\* the solid fallback block when the critical glyph is the default hollow
\* square, and with the critical glyph of the options otherwise, which is
\* the caller's when the caller supplied another one; ok and warn lines are
\* drawn with their own glyphs, and on every other profile (or with no
\* runtime configuration) so is the critical line.
C20_WarpCriticalFallback ==
    Rendered /\ StartsWithPrefix(line) /\ runtime.lobsterStyle # S_image
             /\ BarGlyphs # <<>> =>
        /\ IsCritical /\ runtime.profile = S_warp /\ HollowSquareActive =>
                IsRepeatOf(BarGlyphs, WARP_CRITICAL_FALLBACK_SYMBOL)
        /\ IsCritical /\ runtime.profile = S_warp /\ ~HollowSquareActive =>
                IsRepeatOf(BarGlyphs, options.criticalEmoji)
        /\ raw.criticalEmoji \notin {Undefined, WHITE_LARGE_SQUARE} =>
                ~HollowSquareActive /\ options.criticalEmoji = raw.criticalEmoji
        /\ ~IsCritical \/ runtime.profile # S_warp =>
                IsRepeatOf(BarGlyphs, OptionGlyph)

\* The default hollow square replaced on Warp.
C20_Witness ==
    /\ Rendered
    /\ raw.criticalEmoji = Undefined
    /\ runtime.profile = S_warp
    /\ runtime.lobsterStyle = S_text
    /\ IsCritical
    /\ HollowSquareActive
    /\ BarGlyphs = repeat(WARP_CRITICAL_FALLBACK_SYMBOL, 3)

\* The caller's own critical glyph kept on Warp.
C20_WitnessCustom ==
    /\ Rendered
    /\ raw.criticalEmoji = T_X
    /\ runtime.profile = S_warp
    /\ IsCritical
    /\ BarGlyphs = repeat(T_X, 3)

\* The hollow square kept on a profile other than Warp.
C20_WitnessOtherProfile ==
    /\ Rendered
    /\ runtime.profile = S_generic
    /\ runtime.lobsterStyle = S_text
    /\ IsCritical
    /\ HollowSquareActive
    /\ IsRepeatOf(BarGlyphs, WHITE_LARGE_SQUARE)

(***************************************************************************)
(* Properties of the render loop, stated over what reached stdout (out),   *)
(* the error the wait rejected with and the way the command ended.         *)
(***************************************************************************)
Positions(chunk) == {i \in 1 .. Len(out) : out[i] = chunk}

\* A status line is a chunk that is none of the control sequences.
StatusLines ==
    {i \in 1 .. Len(out) :
        out[i] \notin {ANSI_HIDE_CURSOR, ANSI_SHOW_CURSOR, ANSI_CLEAR_TO_START, NEWLINE}}

After(positions, others) == \A i \in positions, j \in others : i > j

\* Cursor hiding is in force for the run.
HideEnabled == options.hideCursor /\ runtime.supportsCursorHide /\ tty.stdout

Running == lpc \in {"loop", "wait"}
Stopped == lpc = "done"

\* The cleanup as it shows on stdout: the last chunk is the only newline,
\* and the chunk before it is the cursor-show sequence exactly when hiding
\* was in force.
CleanedUp ==
    /\ Len(out) >= 1
    /\ Positions(NEWLINE) = {Len(out)}
    /\ After(Positions(NEWLINE), StatusLines)
    /\ IF HideEnabled
       THEN Positions(ANSI_SHOW_CURSOR) = {Len(out) - 1}
            /\ After(Positions(ANSI_SHOW_CURSOR), StatusLines)
       ELSE Positions(ANSI_SHOW_CURSOR) = {}

Cancelled == waitError = AbortError

C13_WitnessOtherError ==
    /\ Stopped
    /\ ~aborted
    /\ waitError = [isError |-> TRUE, name |-> "TypeError"]
    /\ result = "threw"
    /\ ticks = 1

C14_WitnessOff ==
    /\ Stopped
    /\ raw.hideCursor = "false"
    /\ tty.stdout
    /\ StatusLines = {1, 2}
    /\ out[3] = NEWLINE

(***************************************************************************)
(* Further properties of the watcher, stated like the first ones over one  *)
(* scan: states is the map before it, disk' what it finds, states' and     *)
(* flagged' what it leaves.                                                *)
(***************************************************************************)
\* The scan finds the path's file, and it is the file recorded.
SameFile(p) ==
    /\ Tracked(p) /\ disk'[p].kind = "ok"
    /\ disk'[p].dev = states[p].dev /\ disk'[p].ino = states[p].ino

\* The scan finds another file at the path than the one recorded.
OtherFile(p) ==
    /\ Tracked(p) /\ disk'[p].kind = "ok"
    /\ (disk'[p].dev # states[p].dev \/ disk'[p].ino # states[p].ino)

Shrunk(p) == SameFile(p) /\ disk'[p].size < states[p].size

\* C22 as stated: a tracked file found smaller than recorded, at whatever
\* smaller size, is left with stored size 0 and sets no growth flag in that
\* scan.
C22_Original ==
    [][\A p \in Paths :
        Shrunk(p) =>
            /\ p \in DOMAIN states' /\ states'[p].size = 0
            /\ p \notin flagged']_vars

\* C22 as amended: a tracked file found smaller than recorded is compared
\* with the baseline 0.  Found empty, it is left with stored size 0 and
\* sets no growth flag; found with bytes in it, it sets the growth flag in
\* that same scan and is left with the size found.
C22_TruncationResetsBaseline ==
    [][\A p \in Paths :
        Shrunk(p) =>
            /\ p \in DOMAIN states'
            /\ states'[p].size = disk'[p].size
            /\ p \in flagged' <=> disk'[p].size > 0
            /\ disk'[p].size = 0 => states'[p].size = 0 /\ p \notin flagged']_vars

\* A file of two bytes found with one: growth flagged, one byte stored.
C22_Witness ==
    /\ scans >= 2
    /\ \E p \in Paths :
        /\ change[p] = "truncw"
        /\ disk[p].size = 1
        /\ p \in flagged
        /\ p \in DOMAIN states /\ states[p].size = 1

\* A file found empty after a truncation: nothing flagged, 0 stored.
C22_WitnessEmpty ==
    /\ scans >= 2
    /\ \E p \in Paths :
        /\ change[p] = "trunc"
        /\ p \notin flagged
        /\ p \in DOMAIN states /\ states[p].size = 0
        /\ disk[p].dev = states[p].dev /\ disk[p].ino = states[p].ino

\* C23: the scan that finds another device or inode at a tracked path
\* stores the new identity and compares the new file with the baseline 0:
\* the path sets the growth flag exactly when the new file has bytes in it,
\* whatever size was stored; a new empty file sets none and is stored with
\* size 0.
C23_RotationResetsBaseline ==
    [][\A p \in Paths :
        OtherFile(p) =>
            /\ p \in DOMAIN states'
            /\ states'[p].dev = disk'[p].dev /\ states'[p].ino = disk'[p].ino
            /\ states'[p].size = disk'[p].size
            /\ p \in flagged' <=> disk'[p].size > 0
            /\ disk'[p].size = 0 => states'[p].size = 0 /\ p \notin flagged']_vars

\* A rotated-in empty file: the new identity, size 0, no growth.
C23_Witness ==
    /\ scans >= 2
    /\ sawGrowth = FALSE
    /\ \E p \in Paths :
        /\ change[p] = "rot"
        /\ p \in DOMAIN states
        /\ states[p] = [dev |-> disk[p].dev, ino |-> disk[p].ino, size |-> 0]

\* The size a tracked file is compared with: 0 after the rotation or the
\* truncation reset, otherwise the stored size.
Baseline(p) ==
    IF OtherFile(p) \/ Shrunk(p) THEN 0 ELSE states[p].size

\* The path produces a growth flag in the scan.
FlagsGrowth(p) ==
    Tracked(p) /\ disk'[p].kind = "ok" /\ disk'[p].size > Baseline(p)

\* C24: scanForGrowth() returns true exactly when some path that had a
\* FileState and could be stat'd is larger than its stored size after the
\* rotation and truncation resets; a path that flags growth is left with
\* the current size.
C24_ReturnsTrueIffSomePathGrew ==
    [][/\ sawGrowth' <=> \E p \in Paths : FlagsGrowth(p)
       /\ flagged' = {p \in Paths : FlagsGrowth(p)}
       /\ \A p \in flagged' :
            p \in DOMAIN states' /\ states'[p].size = disk'[p].size]_vars

\* One path grew while the other was seen for the first time with bytes
\* in it: true, on account of the first alone.
C24_Witness ==
    /\ sawGrowth = TRUE
    /\ \E p \in Paths :
        /\ flagged = {p}
        /\ change[p] = "append"
        /\ \E q \in Paths \ {p} :
            change[q] = "new" /\ q \in DOMAIN states /\ states[q].size > 0

\* C25: after every scan the paths with a FileState are the paths the glob
\* matched and stat could read in that scan, no more and no fewer.
C25_TrackedIsMatchedAndStatable ==
    scans >= 1 => DOMAIN states = {p \in Paths : disk[p].kind = "ok"}

\* A tracked path stopped matching while the other stayed: one FileState.
C25_Witness ==
    /\ scans >= 2
    /\ \E p \in Paths :
        /\ change[p] = "gone" /\ disk[p].kind = "absent"
        /\ DOMAIN states = Paths \ {p}

\* C26: a matched path that cannot be stat'd does not stop the scan: the
\* scan completes with a return value, the path has no FileState after it,
\* every other matched path is recorded as found, and growth of another
\* path is reported.
C26_StatFailureIsSwallowed ==
    [][\A p \in Paths :
        disk'[p].kind = "nostat" =>
            /\ scans' = scans + 1
            /\ sawGrowth' \in BOOLEAN
            /\ p \notin DOMAIN states'
            /\ \A q \in Paths \ {p} :
                /\ disk'[q].kind = "ok" =>
                    /\ q \in DOMAIN states'
                    /\ states'[q].size = disk'[q].size
                /\ Tracked(q) /\ change'[q] = "append" =>
                    q \in flagged' /\ sawGrowth' = TRUE]_vars

\* The first path in scan order cannot be stat'd, the second grew.
C26_Witness ==
    /\ scans >= 2
    /\ disk[1].kind = "nostat"
    /\ 1 \notin DOMAIN states
    /\ change[2] = "append"
    /\ flagged = {2}
    /\ sawGrowth = TRUE

\* C27: after every scan each tracked path's stored device, inode and size
\* are the ones the scan found, so the stored size is neither negative nor
\* larger than the size found.
C27_StoredEqualsObserved ==
    scans >= 1 =>
        \A p \in DOMAIN states :
            /\ disk[p].kind = "ok"
            /\ states[p] = [dev |-> disk[p].dev, ino |-> disk[p].ino,
                            size |-> disk[p].size]
            /\ states[p].size >= 0
            /\ states[p].size <= disk[p].size

\* After a scan: one path rotated with bytes written, the other truncated.
C27_Witness ==
    /\ scans >= 2
    /\ \E p \in Paths :
        /\ change[p] = "rotw" /\ p \in DOMAIN states
        /\ states[p].size = disk[p].size
        /\ \E q \in Paths \ {p} :
            change[q] = "trunc" /\ q \in DOMAIN states /\ states[q].size = 0

\* ---------------------------------------------------------------------------
\* Further properties of the renderer
\* ---------------------------------------------------------------------------

\* The state of the line.
StateOfLine == IF IsCritical THEN "critical" ELSE IF IsWarn THEN "warn" ELSE "ok"

\* The resolved configuration has the image style.
ImageStyle == runtime.defined /\ runtime.lobsterStyle = S_image

\* The inline-image escape sequence of the state of the line.
ImageOfState == buildIterm2LobsterSymbols(runtime.colorMode)[StateOfLine]

\* C21: when the resolved configuration has glyph style image, the bar of
\* every state is that state's inline-image escape sequence written some
\* number of times, and holds no text glyph of the options even when the
\* caller supplied custom text glyphs; the line still starts with the
\* "[elapsed] " prefix.
C21_ImageStyleUsesImageSequences ==
    (Rendered /\ ImageStyle) =>
        /\ StartsWithPrefix(line)
        /\ IsRepeatOf(BarGlyphs, ImageOfState)
        /\ ImageOfState # OptionGlyph
        /\ BarGlyphs # <<>> =>
            SubSeq(BarGlyphs, 1, Len(OptionGlyph)) # OptionGlyph

\* A warn line in the image style, the caller's own text glyphs in the
\* options, with at least one image in the bar.
C21_Witness ==
    /\ Rendered /\ ImageStyle /\ IsWarn
    /\ raw.warnEmoji = T_W /\ options.warnEmoji = T_W
    /\ BarGlyphs = ImageOfState

\* The same for a critical line with two images in the bar.
C21_WitnessCritical ==
    /\ Rendered /\ ImageStyle /\ IsCritical
    /\ options.criticalEmoji = T_C
    /\ BarGlyphs = ImageOfState \o ImageOfState

\* ---------------------------------------------------------------------------
\* Properties of buildBarArea
\* ---------------------------------------------------------------------------

Built == bpc = "built"

\* The columns there are for the bar.
Available == Max(0, barIn.totalColumns)
\* N: the filled columns clamped to [0, available].
ClampedFill == Max(0, Min(barIn.filledColumns, Available))
\* The width a glyph is counted with: the override, or else what it
\* measures, at least 1.
GlyphWidth ==
    IF barIn.symbolWidth = Auto THEN Max(1, displayWidth(barIn.symbol))
    ELSE barIn.symbolWidth

\* The padding spaces of the bar, which stand on the decay side, and the
\* rest of it.
Padding ==
    IF barIn.decaySide = S_left THEN LeadingSpaces(barArea)
    ELSE TrailingSpaces(barArea)
Glyphs ==
    IF barIn.decaySide = S_left THEN SubSeq(barArea, Padding + 1, Len(barArea))
    ELSE SubSeq(barArea, 1, Len(barArea) - Padding)
RepeatCount == Len(Glyphs) \div Len(barIn.symbol)
\* The columns accounted to the glyphs.
GlyphColumns == RepeatCount * GlyphWidth

\* C28 as stated: for every glyph, symbol-width setting, fill and column
\* count the columns accounted to glyphs never exceed the available
\* columns, and glyph columns plus padding equal the available columns.
C28_Original ==
    Built =>
        /\ IsRepeatOf(Glyphs, barIn.symbol)
        /\ 0 <= ClampedFill /\ ClampedFill <= Available
        /\ GlyphColumns <= Available
        /\ GlyphColumns + Padding = Available

\* A positive fill where the glyph is wider than the columns there are.
NarrowerThanGlyph == ClampedFill > 0 /\ Available < GlyphWidth

\* C28: the clamped fill is within [0, available]; the columns accounted to
\* glyphs never exceed the available columns and glyph columns plus padding
\* equal the available columns, except where a positive fill meets fewer
\* available columns than the glyph is wide: there one glyph is rendered
\* with no padding, and the columns accounted to it exceed the available
\* columns.
C28_BarWithinAvailableColumns ==
    Built =>
        /\ IsRepeatOf(Glyphs, barIn.symbol)
        /\ 0 <= ClampedFill /\ ClampedFill <= Available
        /\ IF NarrowerThanGlyph
           THEN RepeatCount = 1 /\ Padding = 0 /\ GlyphColumns > Available
           ELSE /\ GlyphColumns <= Available
                /\ GlyphColumns + Padding = Available
                /\ ClampedFill >= GlyphWidth => GlyphColumns <= ClampedFill

\* A fill above the column count, clamped to five columns: two glyphs of
\* two columns and one space.
C28_Witness ==
    /\ Built
    /\ barIn.filledColumns > barIn.totalColumns /\ barIn.totalColumns = 5
    /\ GlyphWidth = 2 /\ RepeatCount = 2 /\ Padding = 1

\* One column for a glyph of two: the glyph is rendered all the same.
C28_WitnessNarrow ==
    /\ Built /\ NarrowerThanGlyph
    /\ Available = 1 /\ barIn.symbol = LOBSTER /\ barArea = LOBSTER

\* The count the glyph is repeated, and the spaces after it, for N columns.
ExpectedCount ==
    IF ClampedFill = 0 THEN 0 ELSE Max(1, ClampedFill \div GlyphWidth)
ExpectedPadding == Max(0, Available - ExpectedCount * GlyphWidth)

\* C29: to fill N columns (the filled columns clamped to [0, available])
\* the glyph is repeated floor(N / glyphWidth) times, glyphWidth being the
\* override or else max(1, displayWidth(glyph)); the count is 1 when N > 0
\* and the quotient is 0, there is no glyph when N = 0, and the remaining
\* columns are spaces, on the decay side.
C29_RepeatCount ==
    Built =>
        LET glyphs == repeat(barIn.symbol, ExpectedCount)
            spaces == repeat(<<Space>>, ExpectedPadding)
        IN  barArea = IF barIn.decaySide = S_left THEN spaces \o glyphs
                      ELSE glyphs \o spaces

\* Five columns to fill with a glyph of two: two glyphs.
C29_Witness ==
    /\ Built /\ ClampedFill = 5 /\ GlyphWidth = 2 /\ Available = 6
    /\ RepeatCount = 2 /\ Padding = 2

\* One column to fill with a glyph of two: the count is forced to 1.
C29_WitnessForced ==
    /\ Built /\ ClampedFill = 1 /\ GlyphWidth = 2 /\ Available = 4
    /\ RepeatCount = 1 /\ Padding = 2

\* Nothing to fill: spaces only.
C29_WitnessEmpty ==
    /\ Built /\ ClampedFill = 0 /\ Available = 3
    /\ barArea = <<Space, Space, Space>>

\* ---------------------------------------------------------------------------
\* The critical bar
\* ---------------------------------------------------------------------------

\* The critical glyph in use and the columns it is counted with.
CriticalGlyph == GlyphOf("critical")
CriticalGlyphWidth == resolveSymbolWidth(CriticalGlyph, SymbolWidthSetting)

\* C30: in the critical state the bar is entirely filled over the full
\* available width and right-aligned, for every available width and every
\* effective glyph width: the bar area holds only critical glyphs, as many
\* as fit, and the columns no glyph can cover are padding to the left of
\* the glyphs.
C30_CriticalRightAligned ==
    (Rendered /\ IsCritical) =>
        LET area == BarOf(line)
            padding == LeadingSpaces(area)
            glyphs == SubSeq(area, padding + 1, Len(area))
            count == Len(glyphs) \div Len(CriticalGlyph)
        IN  /\ StartsWithPrefix(line)
            /\ IsRepeatOf(glyphs, CriticalGlyph)
            /\ padding < CriticalGlyphWidth
            /\ AvailableColumns >= CriticalGlyphWidth =>
                   count * CriticalGlyphWidth + padding = AvailableColumns

\* ---------------------------------------------------------------------------
\* The fill of the ok and warn bars
\* ---------------------------------------------------------------------------

\* The glyph of the line's state and the columns it is counted with.
StateGlyph == GlyphOf(StateOfLine)
StateGlyphWidth == resolveSymbolWidth(StateGlyph, SymbolWidthSetting)
\* How many times the glyph stands in the bar of the line.
GlyphsInLine == Len(BarGlyphs) \div Len(StateGlyph)

\* available * max(0, 1 - idleSeconds / criticalSeconds) as a fraction:
\* numerator and denominator.
FillNumerator == AvailableColumns * Max(0, options.criticalSeconds - IdleSeconds)
FillDenominator == options.criticalSeconds
\* The whole number nearest to the fraction, a half going up, clamped to
\* [0, available]: n with n - 1/2 <= fraction < n + 1/2.
ExpectedFill ==
    LET nearest == CHOOSE n \in 0 .. (AvailableColumns + 1) :
                       /\ (2 * n - 1) * FillDenominator <= 2 * FillNumerator
                       /\ 2 * FillNumerator < (2 * n + 1) * FillDenominator
    IN  Max(0, Min(nearest, AvailableColumns))

C31_WitnessEmpty ==
    /\ Rendered /\ IsWarn
    /\ idleMs = options.criticalSeconds - 1 /\ AvailableColumns = 6
    /\ BarGlyphs = <<>>

\* ---------------------------------------------------------------------------
\* Edge cases of the line
\* ---------------------------------------------------------------------------

\* The terminal is no wider than the prefix.
NoRoomForBar == totalColumns <= displayWidth(LinePrefix)

\* The line for the same inputs and idle 0.
LineAtIdleZero == renderMonitorLine(options, 0, totalColumns, runtime)

\* C32: when totalColumns is not larger than the display width of the
\* "[elapsed] " prefix the line is exactly the prefix, with no glyph and no
\* padding, in every state; and a negative idle duration renders the line
\* of idle 0: the prefix "[00:00] " and the full bar.
C32_PrefixOnlyAndNegativeIdle ==
    Rendered =>
        /\ NoRoomForBar => line = LinePrefix
        /\ idleMs < 0 =>
               /\ line = LineAtIdleZero
               /\ SubSeq(line, 1, 8) = <<91, 48, 48, 58, 48, 48, 93, 32>>
               /\ ~IsCritical
               /\ GlyphsInLine = IF AvailableColumns = 0 THEN 0
                                 ELSE Max(1, AvailableColumns \div StateGlyphWidth)

\* A critical line past the hour in 11 columns: "[01:00:00] " and nothing
\* else.
C32_Witness ==
    /\ Rendered /\ IsCritical /\ NoRoomForBar
    /\ idleMs = 3600000 /\ totalColumns = 11
    /\ line = <<91, 48, 49, 58, 48, 48, 58, 48, 48, 93, 32>>

\* A warn line in 8 columns: the prefix only.
C32_WitnessWarn ==
    /\ Rendered /\ IsWarn /\ NoRoomForBar /\ totalColumns = 8
    /\ line = LinePrefix /\ Len(line) = 8

\* A negative idle in 14 columns with a one-column glyph: six glyphs.
C32_WitnessNegativeIdle ==
    /\ Rendered /\ idleMs < 0 /\ totalColumns = 14
    /\ OneColumn(StateGlyph)
    /\ line = <<91, 48, 48, 58, 48, 48, 93, 32, 79, 79, 79, 79, 79, 79>>

\* ---------------------------------------------------------------------------
\* The bar as idle time passes
\* ---------------------------------------------------------------------------

\* The glyph count of the full bar, at idle 0.
GlyphsAtIdleZero ==
    IF AvailableColumns = 0 THEN 0
    ELSE Max(1, AvailableColumns \div StateGlyphWidth)

\* The bar of a line below critical holds the ok glyph before warnSeconds
\* and the warn glyph from warnSeconds on.
GlyphFollowsThreshold ==
    /\ IdleSeconds < options.warnSeconds =>
           IsRepeatOf(BarGlyphs, pickStateSymbol(options, runtime, "ok"))
    /\ IdleSeconds >= options.warnSeconds =>
           IsRepeatOf(BarGlyphs, pickStateSymbol(options, runtime, "warn"))

TickStep == ticks' = ticks + 1
ScanReturned == failure' # "scan"
LineRendered == failure' \in {"none", "write"}
LineWritten == failure' = "none"

\* The prefix of a line that shows the idle time ms.
PrefixShowing(ms) == <<LBracket>> \o formatElapsed(ms) \o <<RBracket, Space>>
Shows(text, ms) ==
    /\ Len(text) >= Len(PrefixShowing(ms))
    /\ SubSeq(text, 1, Len(PrefixShowing(ms))) = PrefixShowing(ms)

\* C34: on a tick whose scan reports growth the idle-start timestamp is set
\* to that tick's time and the line drawn on that tick shows idle 0; on a
\* tick whose scan reports no growth the timestamp is left unchanged and
\* the line shows the time since it; nothing but a tick moves the
\* timestamp, which starts as the time of the call.
C34_IdleStartFollowsGrowth ==
    /\ [][(TickStep /\ ScanReturned) =>
            /\ sawGrowth' =>
                   /\ lastActivityMs' = clock
                   /\ LineRendered => idleMs' = 0 /\ Shows(line', 0)
            /\ ~sawGrowth' =>
                   /\ lastActivityMs' = lastActivityMs
                   /\ LineRendered =>
                          /\ idleMs' = clock - lastActivityMs
                          /\ Shows(line', clock - lastActivityMs)
            /\ LineWritten =>
                   SubSeq(out'[Len(out')], Len(runtime.drawPrefix) + 1,
                          Len(runtime.drawPrefix) + Len(line')) = line']_vars
    /\ [][~TickStep => lastActivityMs' = lastActivityMs]_vars
    /\ [](lpc = "start" => lastActivityMs = clock)
    /\ [](lastActivityMs <= clock)

\* No growth on either tick, the second 61 s after the call: the line shows
\* "[01:01] ".
C34_Witness ==
    /\ ticks = 2 /\ lpc = "wait" /\ ~sawGrowth
    /\ lastActivityMs = 0 /\ clock = 61000 /\ idleMs = 61000
    /\ Shows(line, 61000)
    /\ SubSeq(line, 1, 8) = <<91, 48, 49, 58, 48, 49, 93, 32>>

\* Growth on the second tick, 61 s after the call: the line shows
\* "[00:00] ".
C34_WitnessGrowth ==
    /\ ticks = 2 /\ lpc = "wait" /\ sawGrowth
    /\ lastActivityMs = 61000 /\ clock = 61000 /\ idleMs = 0
    /\ SubSeq(line, 1, 8) = <<91, 48, 48, 58, 48, 48, 93, 32>>

\* Clearing on events is enabled for the run.
ClearOnEvents == options.clearOnEvents
\* What a step writes to stdout.
NewChunks == SubSeq(out', Len(out) + 1, Len(out'))
ClearsIn(chunks) == {i \in 1 .. Len(chunks) : chunks[i] = ANSI_CLEAR_TO_START}

\* C35: with clear-on-events enabled, a resize or a line of input during
\* the wait raises the flag; the next tick then writes the full-screen clear
\* exactly once, before its status line, writes the line without padding
\* (the previous width being reset to 0) and lowers the flag, however many
\* events there were; a tick with the flag down writes no clear; with
\* clear-on-events disabled the flag is never raised and no clear is ever
\* written.
C35_FullClearOncePerEventBurst ==
    /\ [][(TickStep /\ ScanReturned) =>
            IF ClearOnEvents /\ needsFullClear
            THEN /\ needsFullClear' = FALSE
                 /\ failure' # "clear" =>
                        /\ ClearsIn(NewChunks) = {1}
                        /\ previousWidth' = IF LineWritten
                                            THEN visualWidthOf(runtime, totalColumns', line')
                                            ELSE 0
                        /\ LineWritten =>
                               /\ Len(NewChunks) = 2
                               /\ NewChunks[2] = runtime.drawPrefix \o line'
            ELSE /\ ClearsIn(NewChunks) = {}
                 /\ needsFullClear' = needsFullClear]_vars
    /\ [][(~TickStep /\ tty' # tty /\ ClearOnEvents) => needsFullClear']_vars
    /\ [][(~TickStep /\ needsFullClear' # needsFullClear) =>
            ClearOnEvents /\ needsFullClear' /\ lpc = "wait" /\ out' = out]_vars
    /\ [][~TickStep => ClearsIn(NewChunks) = {}]_vars
    /\ [](~ClearOnEvents => Positions(ANSI_CLEAR_TO_START) = {} /\ ~needsFullClear)

\* A resize from 10 to 14 columns between the two ticks, clearing enabled:
\* the second tick writes the clear and then its line.
C35_Witness ==
    /\ ClearOnEvents /\ ticks = 2 /\ lpc = "wait" /\ ~needsFullClear
    /\ tty.columns = 14
    /\ Positions(ANSI_CLEAR_TO_START) = {Len(out) - 1}
    /\ out[Len(out)] = runtime.drawPrefix \o line

\* The same resize with clearing disabled: no clear.
C35_WitnessDisabled ==
    /\ ~ClearOnEvents /\ ticks = 2 /\ lpc = "wait"
    /\ tty.columns = 14
    /\ Positions(ANSI_CLEAR_TO_START) = {}

\* A line of input on an interactive stdin raises the flag.
C35_WitnessInput ==
    /\ ClearOnEvents /\ needsFullClear /\ lpc = "wait"
    /\ ~tty.stdout /\ tty.stdin /\ "data" \in handlers

\* The status line a tick has written: the chunk, the visual width of its
\* line and the spaces after the line.
WrittenChunk == out'[Len(out')]
VisualWidthNow ==
    IF runtime.lobsterStyle = S_image THEN totalColumns' ELSE displayWidth(line')
PadNow == Len(WrittenChunk) - Len(runtime.drawPrefix) - Len(line')
WritesLineAndPad ==
    /\ PadNow >= 0
    /\ WrittenChunk = runtime.drawPrefix \o line' \o repeat(<<Space>>, PadNow)

\* C36 as stated: on every tick the written text covers at least the visual
\* width stored by the previous tick, the padding being
\* max(0, previous width - current visual width) spaces, and afterwards the
\* stored width is the current line's visual width without padding.
C36_Original ==
    [][(TickStep /\ LineWritten) =>
          /\ WritesLineAndPad
          /\ PadNow = Max(0, previousWidth - VisualWidthNow)
          /\ VisualWidthNow + PadNow >= previousWidth
          /\ previousWidth' = VisualWidthNow]_vars

\* The width the padding is measured against: the one stored by the
\* previous tick, or 0 on a tick that has written the full-screen clear.
WidthToCover == IF ClearsIn(NewChunks) # {} THEN 0 ELSE previousWidth

\* C36: on every tick the padding is max(0, width to cover - current visual
\* width) spaces after the line, the width to cover being the visual width
\* stored by the previous tick, or 0 when the tick has written the
\* full-screen clear; line and padding cover at least that width, and after
\* the write the stored width is the current line's visual width without
\* padding, which in image glyph style is the total column count.
C36_PaddingCoversPreviousLine ==
    [][(TickStep /\ LineWritten) =>
          /\ WritesLineAndPad
          /\ PadNow = Max(0, WidthToCover - VisualWidthNow)
          /\ VisualWidthNow + PadNow >= WidthToCover
          /\ previousWidth' = VisualWidthNow
          /\ runtime.lobsterStyle = S_image => previousWidth' = totalColumns']_vars

\* A terminal narrowed from 14 to 10 columns between the two ticks, without
\* clearing on events: the second line is followed by four spaces.
C36_Witness ==
    /\ ~ClearOnEvents /\ ticks = 2 /\ lpc = "wait"
    /\ tty.columns = 10 /\ totalColumns = 10
    /\ previousWidth = 10
    /\ out[Len(out)] = runtime.drawPrefix \o line \o <<Space, Space, Space, Space>>

\* The same with clearing on events: the clear, and no padding.
C36_WitnessCleared ==
    /\ ClearOnEvents /\ ticks = 2 /\ lpc = "wait"
    /\ tty.columns = 10 /\ totalColumns = 10
    /\ previousWidth = 10
    /\ out[Len(out) - 1] = ANSI_CLEAR_TO_START
    /\ out[Len(out)] = runtime.drawPrefix \o line

\* Image style: the stored width is the column count.
C36_WitnessImage ==
    /\ runtime.defined /\ runtime.lobsterStyle = S_image
    /\ ticks = 2 /\ lpc = "wait"
    /\ previousWidth = 14 /\ totalColumns = 14 /\ displayWidth(line) # 14

\* What a step writes is cleanup only: the cursor-show sequence, the
\* newline.
OnlyCleanupWritten ==
    \A i \in 1 .. Len(NewChunks) : NewChunks[i] \in {ANSI_SHOW_CURSOR, NEWLINE}

\* C37: after the cancellation signal has fired no new tick starts: the
\* signal arrives during the inter-tick wait, the wait ends without the
\* delay running out and the loop is left for the cleanup; no scan, no
\* rendering and no status-line write happens afterwards, and only the
\* cleanup writes follow.
C37_NoTickAfterCancellation ==
    /\ [][aborted =>
            /\ ticks' = ticks
            /\ clock' = clock
            /\ sawGrowth' = sawGrowth /\ lastActivityMs' = lastActivityMs
            /\ line' = line /\ idleMs' = idleMs /\ previousWidth' = previousWidth
            /\ StatusLines' = StatusLines
            /\ OnlyCleanupWritten
            /\ aborted']_vars
    /\ [][(~aborted /\ aborted') => lpc = "wait" /\ lpc' = "wait" /\ out' = out]_vars
    /\ [][(aborted /\ lpc = "wait" /\ lpc' # "wait") =>
            lpc' = "finally" /\ waitError' = AbortError]_vars
    /\ [](aborted => lpc \in {"wait", "finally", "done"})

\* Cancelled during the first wait, the clock still at the first tick: one
\* status line, then the cleanup.
C37_Witness ==
    /\ lpc = "done" /\ aborted
    /\ ticks = 1 /\ clock = 0
    /\ Cardinality(StatusLines) = 1
    /\ out[Len(out)] = NEWLINE
    /\ \A i \in StatusLines : i < Len(out)

\* Cancelled, the wait not yet left.
C37_WitnessWaiting ==
    /\ lpc = "wait" /\ aborted /\ waitError = NoError /\ ticks = 2

\* An error has ended the loop.
Failed == failure # "none"

C38_WitnessRunning ==
    /\ Running /\ ~aborted /\ ~Failed /\ ticks = 2 /\ clock = 61000

\* The run has ended: the promise of runMonitorCommand is settled.
Ended == result # "running"

\* The listeners a run registers.
Registered ==
    {"SIGINT", "SIGTERM"}
    \cup (IF ClearOnEvents THEN {"SIGWINCH"} ELSE {})
    \cup (IF ClearOnEvents /\ tty.stdin THEN {"data"} ELSE {})

\* C39: every handler registered by runMonitorCommand (interrupt and
\* terminate, and with clear-on-events the resize handler and the listener
\* on an interactive stdin) is removed on every exit path, error exits
\* included: while the loop runs they are registered, and once the run has
\* ended none of them is.
C39_HandlersRemovedOnEveryExit ==
    /\ Running => handlers = Registered
    /\ Ended => handlers = {}

====
